---- MODULE Spec2Model ----
(***************************************************************************)
(* Model of the resume parser / scorer / builder services.                 *)
(*                                                                         *)
(* Two state machines share this module:                                   *)
(*   SpecScore : ScoringService.score_resume, a pure function of the      *)
(*               request (resume, mode, job description, industry).        *)
(*   Spec      : ResumeBuilderService: the in-memory cache and the        *)
(*               JSON files on disk under create/get/update/delete/save.   *)
(*                                                                         *)
(* Numbers.  Python floats are modelled exactly as integers:               *)
(*   component scores   in thousandths of a point (100.0 -> 100000),       *)
(*   weights            in hundredths (0.25 -> 25),                        *)
(*   the weighted sum   in 1/100000 of a point,                            *)
(*   rounded results    in tenths (round(x, 1)) or hundredths (round(x,2)).*)
(* round() is modelled as round-half-to-even on the exact value.           *)
(*                                                                         *)
(* Text.  raw_text is represented by what the tokenizer and the regular    *)
(* expressions of the code extract from it (word counts, sentence count,   *)
(* syllables, which patterns match), not by its characters.                *)
(***************************************************************************)
EXTENDS Integers, Sequences, FiniteSets, TLC

VARIABLES request, scored, cache, disk, issued, reply, now

vars == <<request, scored, cache, disk, issued, reply, now>>

None == "None"

Min(a, b) == IF a <= b THEN a ELSE b
Max(a, b) == IF a >= b THEN a ELSE b

RECURSIVE SumSeq(_)
SumSeq(s) == IF s = <<>> THEN 0 ELSE Head(s) + SumSeq(Tail(s))

RECURSIVE Flatten(_)
Flatten(ss) == IF ss = <<>> THEN <<>> ELSE Head(ss) \o Flatten(Tail(ss))

Rep(n, x) == [i \in 1..n |-> x]

\* Python truthiness of an Optional[str] field.
Truthy(x) == x # None /\ x # ""

\* Optional[float]: Nothing is Python's None.
Nothing == <<>>
Some(x) == <<x>>

\* round(n/d) to the nearest integer, ties to even (d > 0, n >= 0).
RoundHalfEven(n, d) ==
    LET q == n \div d
        r == n % d
    IN  IF 2 * r < d THEN q
        ELSE IF 2 * r > d THEN q + 1
        ELSE IF q % 2 = 0 THEN q ELSE q + 1

RECURSIVE GCD(_, _)
GCD(a, b) == IF b = 0 THEN a ELSE GCD(b, a % b)

\* round(x, 1) of a score held in thousandths: the result is in tenths.
Round1(milli) == RoundHalfEven(milli, 100)

(***************************************************************************)
(* scoring_models.ScanMode, scoring_service.WEIGHTS, INDUSTRY_KEYWORDS     *)
(***************************************************************************)
ScanMode == {"basic", "ats", "expert"}

\* Mutant of WEIGHTS: layout weighs 10% in ATS and EXPERT mode.
WEIGHTS_layout10 ==
    [m \in ScanMode |->
        IF m = "basic"
        THEN [ats_compliance |-> 50, layout |-> 30, readability |-> 20]
        ELSE [ats_compliance |-> 25, experience |-> 25, skills |-> 20,
              readability |-> 15, layout |-> 10]]

WEIGHTS ==
    [m \in ScanMode |->
        IF m = "basic"
        THEN [ats_compliance |-> 50, layout |-> 30, readability |-> 20]
        ELSE [ats_compliance |-> 25, experience |-> 25, skills |-> 20,
              readability |-> 15, layout |-> 15]]

\* The keys of INDUSTRY_KEYWORDS.
RecognisedIndustries == {"engineering", "it-software", "finance", "healthcare"}

\* len(INDUSTRY_KEYWORDS[industry]['technical_skills'])
TechnicalSkillsLen ==
    [i \in RecognisedIndustries |->
        CASE i = "engineering" -> 20
          [] i = "it-software" -> 25
          [] i = "finance"     -> 19
          [] i = "healthcare"  -> 20]

\* `industry and industry in INDUSTRY_KEYWORDS`
IndustryKnown(industry) == industry # None /\ industry \in RecognisedIndustries

(***************************************************************************)
(* ScoringService._detect_structure_flags                                  *)
(* text.split   = len(raw_text.split())                                    *)
(* text.tables / images / columns = a table / image / \s{5,} pattern       *)
(*                matches raw_text                                         *)
(***************************************************************************)
DefaultStructureFlags ==
    [has_tables |-> FALSE, has_images |-> FALSE, has_columns |-> FALSE,
     has_headers_footers |-> FALSE, is_image_only_pdf |-> FALSE, page_count |-> 1]

\* Mutant of _detect_structure_flags: a text of exactly 20 words is taken
\* for an image-only PDF too.
_detect_structure_flags_upto20(text) ==
    IF text.split <= 20
    THEN [DefaultStructureFlags EXCEPT !.is_image_only_pdf = TRUE]
    ELSE [DefaultStructureFlags EXCEPT
            !.has_tables = text.tables,
            !.has_images = text.images,
            !.has_columns = text.columns,
            !.page_count = Max(1, RoundHalfEven(text.split, 450))]

_detect_structure_flags(text) ==
    IF text.split < 20
    THEN [DefaultStructureFlags EXCEPT !.is_image_only_pdf = TRUE]
    ELSE [DefaultStructureFlags EXCEPT
            !.has_tables = text.tables,
            !.has_images = text.images,
            !.has_columns = text.columns,
            !.page_count = Max(1, RoundHalfEven(text.split, 450))]

(***************************************************************************)
(* ScoringService._ats_compliance_score (thousandths)                      *)
(***************************************************************************)
_ats_compliance_score(resume, flags) ==
    IF flags.is_image_only_pdf THEN 10000
    ELSE LET score ==
               100000
               - (IF ~Truthy(resume.contact.email) THEN 15000 ELSE 0)
               - (IF ~Truthy(resume.contact.phone) THEN 10000 ELSE 0)
               - (IF flags.has_tables THEN 15000 ELSE 0)
               - (IF flags.has_images THEN 10000 ELSE 0)
               - (IF flags.has_columns THEN 8000 ELSE 0)
               - (IF ~Truthy(resume.summary) THEN 5000 ELSE 0)
               - (IF Len(resume.experience) = 0 THEN 20000 ELSE 0)
               - (IF Len(resume.education) = 0 THEN 10000 ELSE 0)
               - (IF Len(resume.skills) = 0 THEN 10000 ELSE 0)
               - (IF flags.page_count > 3 THEN 10000 ELSE 0)
         IN  Max(0, Min(100000, score))

(***************************************************************************)
(* NLPService.calculate_flesch_reading_ease / calculate_flesch_kincaid_grade*)
(* text.sentences = len(tokenize_sentences(text))                          *)
(* text.alpha     = number of tokens with token.is_alpha                   *)
(* text.syllables = sum of count_syllables over those tokens               *)
(* Results are in hundredths (the code rounds both to 2 decimals).         *)
(***************************************************************************)
ZeroMetrics ==
    [total_sentences |-> 0, total_words |-> 0, total_syllables |-> 0,
     avg_words_per_sentence |-> 0, avg_syllables_per_word |-> 0]

\* Both formulas are evaluated exactly on the ratios W/S = a/b and Y/W = c/d
\* in lowest terms.
calculate_flesch_reading_ease(text) ==
    IF text.sentences = 0 \/ text.alpha = 0
    THEN [score |-> 0, metrics |-> ZeroMetrics]
    ELSE LET S == text.sentences
             W == text.alpha
             Y == text.syllables
             a == W \div GCD(W, S)
             b == S \div GCD(W, S)
             c == Y \div GCD(Y, W)
             d == W \div GCD(Y, W)
             \* 206.835 - 1.015*(a/b) - 84.6*(c/d), times 1000*b*d
             num == 206835 * b * d - 1015 * a * d - 84600 * c * b
             den == b * d
             clamped == Max(0, Min(100000 * den, num))
         IN  [score |-> RoundHalfEven(clamped, 10 * den),
              metrics |->
                 [total_sentences |-> S, total_words |-> W, total_syllables |-> Y,
                  avg_words_per_sentence |-> RoundHalfEven(100 * a, b),
                  avg_syllables_per_word |-> RoundHalfEven(100 * c, d)]]

calculate_flesch_kincaid_grade(text) ==
    IF text.sentences = 0 \/ text.alpha = 0
    THEN 0
    ELSE LET S == text.sentences
             W == text.alpha
             Y == text.syllables
             a == W \div GCD(W, S)
             b == S \div GCD(W, S)
             c == Y \div GCD(Y, W)
             d == W \div GCD(Y, W)
             \* 0.39*(a/b) + 11.8*(c/d) - 15.59, times 100*b*d
             num == 39 * a * d + 1180 * c * b - 1559 * b * d
         IN  RoundHalfEven(Max(0, num), b * d)

(***************************************************************************)
(* ScoringService._readability_score: score in thousandths, and the        *)
(* ReadabilityMetrics (fre, grade, avg_syllables in hundredths; avg words  *)
(* and readability_score in tenths).                                       *)
(***************************************************************************)
_readability_score(resume) ==
    LET fre == calculate_flesch_reading_ease(resume.raw_text)
        fre_score == fre.score
        fk_grade == calculate_flesch_kincaid_grade(resume.raw_text)
        raw == 100000
               - (IF fre_score < 5000 THEN (5000 - fre_score) * 5 ELSE 0)
               - (IF fre_score > 8000 THEN (fre_score - 8000) * 3 ELSE 0)
               - (IF fk_grade > 1200 THEN (fk_grade - 1200) * 50 ELSE 0)
               - (IF fk_grade < 600 THEN (600 - fk_grade) * 30 ELSE 0)
        s == Max(0, Min(100000, raw))
    IN  [score |-> s,
         metrics |->
            [flesch_reading_ease |-> RoundHalfEven(fre_score, 10),
             flesch_kincaid_grade |-> RoundHalfEven(fk_grade, 10),
             avg_words_per_sentence |->
                 RoundHalfEven(fre.metrics.avg_words_per_sentence, 10),
             avg_syllables_per_word |-> fre.metrics.avg_syllables_per_word,
             readability_score |-> Round1(s)]]

(***************************************************************************)
(* ScoringService._layout_score (thousandths)                              *)
(* text.tokens = len(nlp_service.tokenize_words(raw_text))                 *)
(***************************************************************************)
_layout_score(resume, flags) ==
    LET word_count == resume.raw_text.tokens
        is_too_short == word_count < 150
        is_too_long == word_count > 2000
        banded ==
            IF is_too_short THEN 100000 - (150 - word_count) * 400
            ELSE IF is_too_long THEN 100000 - (word_count - 2000) * 30
            ELSE IF 400 <= word_count /\ word_count <= 1500 THEN 100000
            ELSE IF 200 <= word_count /\ word_count < 400 THEN 80000
            ELSE IF 1500 < word_count /\ word_count <= 2000 THEN 85000
            ELSE 100000
        penalised == banded - (IF flags.has_columns THEN 5000 ELSE 0)
                            - (IF flags.has_headers_footers THEN 3000 ELSE 0)
        s == Max(0, Min(100000, penalised))
    IN  [score |-> s,
         metrics |-> [word_count |-> word_count,
                      is_too_short |-> is_too_short,
                      is_too_long |-> is_too_long,
                      length_score |-> Round1(s)]]

(***************************************************************************)
(* Bullets.  A bullet is represented by what the code's regular            *)
(* expressions find in it:                                                 *)
(*   quant  = _contains_quantification(bullet)                             *)
(*   impact = one of the impact_patterns of _apply_expert_rules matches    *)
(*   verbs  = the industries one of whose action_verbs occurs in it        *)
(*   upper  = its first word starts with an upper-case letter              *)
(***************************************************************************)
_contains_quantification(bullet) == bullet.quant

AllBullets(resume) == Flatten(resume.experience)

\* The number of items of a list whose test (tests[i] for item i) is true.
CountTrue(tests) == Cardinality({i \in 1..Len(tests) : tests[i]})

(***************************************************************************)
(* ScoringService._experience_score (thousandths)                          *)
(***************************************************************************)
\* The industry-specific bonus for action verbs, counted once per bullet.
IndustryVerbBonus(resume, industry) ==
    LET bullets == AllBullets(resume)
        HasVerb(b) == industry \in b.verbs
        verb_matches == CountTrue([i \in 1..Len(bullets) |-> HasVerb(bullets[i])])
    IN  IF IndustryKnown(industry)
        THEN IF verb_matches >= 5 THEN 10000
             ELSE IF verb_matches >= 3 THEN 5000
             ELSE IF verb_matches > 0 THEN 2000 ELSE 0
        ELSE 0

_experience_score(resume, industry) ==
    LET total_roles == Len(resume.experience)
        bullets == AllBullets(resume)
        total_bullets == Len(bullets)
        quantified_achievements == 
            CountTrue([i \in 1..Len(bullets) |-> _contains_quantification(bullets[i])])
        \* avg_bullets_per_role = total_bullets / total_roles
        \* quantification_rate  = quantified / total_bullets * 100 (0 if no bullets)
        roles_pts == IF total_roles >= 3 THEN 30000
                     ELSE IF total_roles = 2 THEN 20000
                     ELSE IF total_roles = 1 THEN 10000 ELSE 0
        density_pts ==
            IF 3 * total_roles <= total_bullets /\ total_bullets <= 5 * total_roles
                THEN 30000
            ELSE IF total_bullets > 5 * total_roles THEN 25000
            ELSE IF total_bullets >= 2 * total_roles THEN 15000
            ELSE IF total_bullets >= total_roles THEN 5000
            ELSE 0
        quant_pts ==
            IF total_bullets = 0 THEN 0
            ELSE IF 100 * quantified_achievements >= 40 * total_bullets THEN 40000
            ELSE IF 100 * quantified_achievements >= 25 * total_bullets THEN 30000
            ELSE IF 100 * quantified_achievements >= 15 * total_bullets THEN 20000
            ELSE IF quantified_achievements > 0 THEN 10000
            ELSE 0
        industry_pts == IndustryVerbBonus(resume, industry)
    IN  IF total_roles = 0
        THEN [score |-> 0,
              metrics |-> [total_roles |-> 0, quantified_achievements |-> 0,
                           experience_score |-> 0]]
        ELSE LET s == Min(100000, roles_pts + density_pts + quant_pts + industry_pts)
             IN  [score |-> s,
                  metrics |-> [total_roles |-> total_roles,
                               quantified_achievements |-> quantified_achievements,
                               experience_score |-> Round1(s)]]

(***************************************************************************)
(* ScoringService._skills_score (thousandths)                              *)
(* A skill is its category (None when the taxonomy does not know it).      *)
(* text.kw[i]       = number of INDUSTRY_KEYWORDS[i]['technical_skills']   *)
(*                    found in raw_text.lower()                            *)
(* resume.skill_kw[i] = number of further ones found only in the joined    *)
(*                    skill names that precede raw_text in all_text        *)
(***************************************************************************)
Categorised(skill) == skill.category # None

\* Mutant of IndustrySkillsBonus: a resume matching under 15% of the
\* industry's keywords loses points instead of gaining none.
IndustrySkillsBonusPenalising(resume, industry) ==
    IF IndustryKnown(industry)
    THEN LET n == TechnicalSkillsLen[industry]
             matched_industry_skills ==
                 resume.raw_text.kw[industry] + resume.skill_kw[industry]
         IN  IF 100 * matched_industry_skills >= 40 * n THEN 15000
             ELSE IF 100 * matched_industry_skills >= 25 * n THEN 10000
             ELSE IF 100 * matched_industry_skills >= 15 * n THEN 5000
             ELSE -5000
    ELSE 0

\* The industry-specific bonus of _skills_score: match_rate is
\* matched_industry_skills / len(industry_skills) * 100.
IndustrySkillsBonus(resume, industry) ==
    IF IndustryKnown(industry)
    THEN LET n == TechnicalSkillsLen[industry]
             matched_industry_skills ==
                 resume.raw_text.kw[industry] + resume.skill_kw[industry]
         IN  IF 100 * matched_industry_skills >= 40 * n THEN 15000
             ELSE IF 100 * matched_industry_skills >= 25 * n THEN 10000
             ELSE IF 100 * matched_industry_skills >= 15 * n THEN 5000
             ELSE 0
    ELSE 0

_skills_score(resume, industry) ==
    LET total_skills == Len(resume.skills)
        categorized_skills == 
            CountTrue([i \in 1..Len(resume.skills) |-> Categorised(resume.skills[i])])
        categories == {resume.skills[i].category : i \in 1..Len(resume.skills)} \ {None}
        unique_categories == Cardinality(categories)
        count_pts == IF total_skills >= 15 THEN 40000
                     ELSE IF total_skills >= 10 THEN 30000
                     ELSE IF total_skills >= 5 THEN 20000
                     ELSE IF total_skills > 0 THEN 10000 ELSE 0
        \* categorization_rate = categorized_skills / total_skills * 100
        rate_pts == IF 100 * categorized_skills >= 70 * total_skills THEN 30000
                    ELSE IF 100 * categorized_skills >= 50 * total_skills THEN 20000
                    ELSE IF 100 * categorized_skills >= 30 * total_skills THEN 10000
                    ELSE 0
        diversity_pts == IF unique_categories >= 5 THEN 30000
                         ELSE IF unique_categories >= 3 THEN 20000
                         ELSE IF unique_categories >= 2 THEN 10000 ELSE 0
        industry_pts == IndustrySkillsBonus(resume, industry)
    IN  IF total_skills = 0
        THEN [score |-> 0,
              metrics |-> [total_skills |-> 0, categorized_skills |-> 0,
                           unique_categories |-> 0, skills_score |-> 0]]
        ELSE LET s == Min(100000, count_pts + rate_pts + diversity_pts + industry_pts)
             IN  [score |-> s,
                  metrics |-> [total_skills |-> total_skills,
                               categorized_skills |-> categorized_skills,
                               unique_categories |-> unique_categories,
                               skills_score |-> Round1(s)]]

(***************************************************************************)
(* ScoringService._apply_expert_rules (thousandths, may be negative)       *)
(* cert.industries = the industries one of whose certification keywords    *)
(*                   occurs in the certification's lower-cased name        *)
(* text.bias       = the bias terms found in raw_text.lower():             *)
(*   "dob" (date of birth|dob), "born" (born on), "gender" (gender|male|   *)
(*   female), "age" (age|married|single), "nationality" (nationality|      *)
(*   religion), "race"                                                     *)
(***************************************************************************)
\* Mutant of CertificationBonus: the 3 points are subtracted.
CertificationBonusSubtracted(resume, industry) ==
    IF Len(resume.certifications) > 0
    THEN (IF IndustryKnown(industry)
             /\ \E i \in 1..Len(resume.certifications) :
                    industry \in resume.certifications[i].industries
          THEN 4000 ELSE 0) - 3000
    ELSE 0

\* "BONUS: Has certifications", with the extra bonus for a certification
\* of the industry.
CertificationBonus(resume, industry) ==
    IF Len(resume.certifications) > 0
    THEN 3000 +
         (IF IndustryKnown(industry)
             /\ \E i \in 1..Len(resume.certifications) :
                    industry \in resume.certifications[i].industries
          THEN 4000 ELSE 0)
    ELSE 0

\* Mutant of _apply_expert_rules: the penalty for no quantified achievement
\* is applied to a resume without experience too.
_apply_expert_rules_unguarded(resume, industry) ==
    LET bullets == AllBullets(resume)
        has_impact_metrics == \E i \in 1..Len(bullets) : bullets[i].impact
        total_quantified ==
            CountTrue([i \in 1..Len(bullets) |-> _contains_quantification(bullets[i])])
    IN  (IF has_impact_metrics THEN 5000 ELSE 0)
        + CertificationBonus(resume, industry)
        + (IF Truthy(resume.summary) THEN 2000 ELSE 0)
        - (IF resume.raw_text.bias # {} THEN 5000 ELSE 0)
        - (IF total_quantified = 0 THEN 5000 ELSE 0)

_apply_expert_rules(resume, industry) ==
    LET bullets == AllBullets(resume)
        has_impact_metrics == \E i \in 1..Len(bullets) : bullets[i].impact
        cert_bonus == CertificationBonus(resume, industry)
        biased == resume.raw_text.bias # {}
        total_quantified == 
            CountTrue([i \in 1..Len(bullets) |-> _contains_quantification(bullets[i])])
    IN  (IF has_impact_metrics THEN 5000 ELSE 0)
        + cert_bonus
        + (IF Truthy(resume.summary) THEN 2000 ELSE 0)
        - (IF biased THEN 5000 ELSE 0)
        - (IF total_quantified = 0 /\ Len(resume.experience) > 0 THEN 5000 ELSE 0)

(***************************************************************************)
(* ScoringService._job_match_score.  A job description is                  *)
(*   [kind   |-> "none" (None), "empty" ("") or "text",                    *)
(*    words  |-> number of distinct job-description tokens longer than 2,  *)
(*    common |-> how many of them are resume words or skill names].        *)
(* Result: tenths, already rounded as score_resume rounds it.              *)
(***************************************************************************)
\* Mutant of _job_match_score: the boosted overlap is not capped at 100.
_job_match_score_uncapped(resume, job_description) ==
    IF job_description.words = 0 THEN 500
    ELSE RoundHalfEven(1500 * job_description.common, job_description.words)

_job_match_score(resume, job_description) ==
    IF job_description.words = 0 THEN 500
    ELSE \* min(100, common / words * 100 * 1.5), to one decimal
         Min(1000, RoundHalfEven(1500 * job_description.common, job_description.words))

(***************************************************************************)
(* ScoringService._calculate_weighted_score: 1/100000 of a point           *)
(***************************************************************************)
OrZero(x) == IF x = Nothing THEN 0 ELSE x[1]

_calculate_weighted_score(mode, ats_score, readability_score, layout_score, experience_score, skills_score, weights) ==
    IF mode = "basic"
    THEN ats_score * weights.ats_compliance
         + layout_score * weights.layout
         + readability_score * weights.readability
    ELSE ats_score * weights.ats_compliance
         + OrZero(experience_score) * weights.experience
         + OrZero(skills_score) * weights.skills
         + readability_score * weights.readability
         + layout_score * weights.layout

(***************************************************************************)
(* ScoringService._extract_flags (the warning sign that starts every flag  *)
(* in the source is left out of the strings)                               *)
(***************************************************************************)
When(cond, items) == IF cond THEN items ELSE <<>>

_extract_flags(resume, structure_flags, mode) ==
    LET bullets == AllBullets(resume)
        total_bullets == Len(bullets)
        total_quantified == 
            CountTrue([i \in 1..Len(bullets) |-> _contains_quantification(bullets[i])])
        deep == mode \in {"ats", "expert"}
        bias == resume.raw_text.bias
    IN  When(structure_flags.is_image_only_pdf,
             <<"ATS cannot parse images - use text-based PDF">>)
        \o When(~Truthy(resume.contact.email), <<"Missing contact email">>)
        \o When(~Truthy(resume.contact.phone), <<"Missing phone number">>)
        \o When(structure_flags.has_tables,
                <<"Tables may not parse correctly in ATS">>)
        \o When(structure_flags.has_images,
                <<"Images/photos may increase bias risk">>)
        \o When(structure_flags.page_count > 2,
                <<"Resume is longer than recommended (2 pages max)">>)
        \o When(deep /\ total_bullets > 0 /\ total_quantified = 0,
                <<"No achievements quantified - add metrics and numbers">>)
        \o When(deep /\ ~Truthy(resume.summary),
                <<"Missing professional summary">>)
        \o When(deep /\ Len(resume.skills) < 5,
                <<"Limited skills listed - consider adding more">>)
        \o When(mode = "expert" /\ "dob" \in bias,
                <<"Personal info increases bias risk (date of birth)">>)
        \o When(mode = "expert" /\ "gender" \in bias,
                <<"Personal info increases bias risk (gender)">>)
        \o When(mode = "expert" /\ "nationality" \in bias,
                <<"Personal info increases bias risk (nationality/religion)">>)

(***************************************************************************)
(* ScoringService._generate_comments, one operator per rule pass           *)
(***************************************************************************)
\* industry.replace('-', '/').title() inside the two industry comments
IndustrySkillsComment(industry) ==
    CASE industry = "engineering" ->
           "Add more Engineering-specific technical skills to match industry standards"
      [] industry = "it-software" ->
           "Add more It/Software-specific technical skills to match industry standards"
      [] industry = "finance" ->
           "Add more Finance-specific technical skills to match industry standards"
      [] industry = "healthcare" ->
           "Add more Healthcare-specific technical skills to match industry standards"

IndustryCertsComment(industry) ==
    CASE industry = "engineering" ->
           "Consider adding Engineering-relevant certifications to boost credibility"
      [] industry = "it-software" ->
           "Consider adding It/Software-relevant certifications to boost credibility"
      [] industry = "finance" ->
           "Consider adding Finance-relevant certifications to boost credibility"
      [] industry = "healthcare" ->
           "Consider adding Healthcare-relevant certifications to boost credibility"

AtsComments(resume, ats_score) ==
    When(ats_score < 70000,
         When(~Truthy(resume.contact.email),
              <<"Add a professional email address for recruiter contact">>)
         \o When(Len(resume.experience) = 0,
                 <<"Include work experience to strengthen your resume">>)
         \o When(Len(resume.skills) = 0,
                 <<"Add a skills section with relevant keywords">>))

ReadabilityComments(readability_score) ==
    When(readability_score < 70000,
         <<"Improve readability by shortening long sentences",
           "Use simpler language where possible">>)

LayoutComments(resume, layout_score) ==
    LET word_count == resume.raw_text.split
    IN  When(layout_score < 70000,
             IF word_count < 300
             THEN <<"Resume is too short - add more detail to experience">>
             ELSE IF word_count > 1500
             THEN <<"Consider condensing resume to 1-2 pages">>
             ELSE <<>>)

IndustryComments(resume, industry) ==
    IF IndustryKnown(industry)
    THEN LET matched_skills == resume.raw_text.kw[industry]
             has_industry_cert ==
                 \E i \in 1..Len(resume.certifications) :
                     industry \in resume.certifications[i].industries
         IN  When(matched_skills < 3, <<IndustrySkillsComment(industry)>>)
             \o When(~has_industry_cert /\ Len(resume.certifications) = 0,
                     <<IndustryCertsComment(industry)>>)
    ELSE <<>>

ExperienceComments(resume, mode, experience_score) ==
    LET bullets == AllBullets(resume)
        total_quantified == 
            CountTrue([i \in 1..Len(bullets) |-> _contains_quantification(bullets[i])])
        \* avg_bullets = total bullets / max(1, number of roles)
        few_bullets == Len(bullets) < 3 * Max(1, Len(resume.experience))
    IN  When(mode \in {"ats", "expert"} /\ experience_score # Nothing,
             When(OrZero(experience_score) < 70000,
                  When(total_quantified = 0,
                       <<"Add metrics to show real impact (e.g., 'Increased efficiency by 20%')">>)
                  \o When(few_bullets,
                          <<"Add 3-5 bullet points per role describing key achievements">>)))

SkillsComments(resume, mode, skills_score) ==
    When(mode \in {"ats", "expert"} /\ skills_score # Nothing,
         When(OrZero(skills_score) < 70000,
              When(Len(resume.skills) < 10,
                   <<"Add a skills section with more relevant keywords">>)
              \o <<"Include both technical and soft skills">>))

GeneralComments(resume, mode) ==
    When(~Truthy(resume.summary),
         <<"Add a professional summary at the top of your resume">>)
    \o When(Len(resume.certifications) = 0 /\ mode = "expert",
            <<"Consider adding relevant certifications to stand out">>)

\* One role has, among its first three bullets, both a bullet starting with
\* an upper-case letter and one that does not.
BulletComments(resume) ==
    LET Mixed(role) ==
            LET firsts == {role[i].upper : i \in 1..Min(3, Len(role))}
            IN  Cardinality(firsts) > 1
        has_inconsistent_bullets ==
            \E r \in 1..Len(resume.experience) : Mixed(resume.experience[r])
    IN  When(Len(resume.experience) > 0 /\ has_inconsistent_bullets,
             <<"Ensure consistent bullet formatting - start each with a strong action verb">>)

Take(s, n) == SubSeq(s, 1, Min(n, Len(s)))

\* The comments of all rule passes, in the order the code runs them.
AllComments(mode, ats_score, readability_score, layout_score, experience_score, skills_score, resume, industry) ==
    AtsComments(resume, ats_score)
    \o ReadabilityComments(readability_score)
    \o LayoutComments(resume, layout_score)
    \o IndustryComments(resume, industry)
    \o ExperienceComments(resume, mode, experience_score)
    \o SkillsComments(resume, mode, skills_score)
    \o GeneralComments(resume, mode)
    \o BulletComments(resume)

\* Mutant of _generate_comments: the general best-practice comments are
\* produced first.
_generate_comments_general_first(mode, ats_score, readability_score, layout_score, experience_score, skills_score, flags, resume, industry) ==
    Take(GeneralComments(resume, mode)
         \o AtsComments(resume, ats_score)
         \o ReadabilityComments(readability_score)
         \o LayoutComments(resume, layout_score)
         \o IndustryComments(resume, industry)
         \o ExperienceComments(resume, mode, experience_score)
         \o SkillsComments(resume, mode, skills_score)
         \o BulletComments(resume), 6)

_generate_comments(mode, ats_score, readability_score, layout_score, experience_score, skills_score, flags, resume, industry) ==
    LET comments == AllComments(mode, ats_score, readability_score, layout_score,
                                experience_score, skills_score, resume, industry)
    IN  Take(comments, 6)

(***************************************************************************)
(* ScoringService.score_resume                                             *)
(* ScoreParts holds the local variables of score_resume before rounding;   *)
(* score_resume builds the returned ResumeScore from them.                 *)
(***************************************************************************)
\* The component scores of score_resume: experience and skills are scored
\* in ATS and EXPERT mode only.
ComponentScores(resume, mode, industry, structure_flags) ==
    [structure_flags |-> structure_flags,
     ats_score |-> _ats_compliance_score(resume, structure_flags),
     readability |-> _readability_score(resume),
     layout |-> _layout_score(resume, structure_flags),
     experience_score |->
        IF mode \in {"ats", "expert"}
        THEN Some(_experience_score(resume, industry).score) ELSE Nothing,
     skills_score |->
        IF mode \in {"ats", "expert"}
        THEN Some(_skills_score(resume, industry).score) ELSE Nothing]

\* overall = max(0, min(100, overall + expert_bonus)) in EXPERT mode, in
\* 1/100000 of a point (expert_bonus is in thousandths).
AdjustedOverall(mode, weighted, expert_bonus) ==
    IF mode = "expert"
    THEN Min(10000000, Max(0, weighted + 100 * expert_bonus))
    ELSE weighted

PartsWithOverall(c, mode, weighted, expert_bonus) ==
    [structure_flags |-> c.structure_flags,
     ats_score |-> c.ats_score,
     readability_score |-> c.readability.score,
     readability_metrics |-> c.readability.metrics,
     layout_score |-> c.layout.score,
     layout_metrics |-> c.layout.metrics,
     experience_score |-> c.experience_score,
     skills_score |-> c.skills_score,
     weighted |-> weighted,
     expert_bonus |-> expert_bonus,
     overall |-> AdjustedOverall(mode, weighted, expert_bonus)]

WeightedOf(c, mode) ==
    _calculate_weighted_score(mode, c.ats_score, c.readability.score, c.layout.score,
                              c.experience_score, c.skills_score, WEIGHTS[mode])

PartsOf(c, resume, mode, industry) ==
    PartsWithOverall(c, mode, WeightedOf(c, mode),
                     IF mode = "expert" THEN _apply_expert_rules(resume, industry)
                     ELSE 0)

\* score_resume up to the expert adjustment: the structure flags, the
\* component scores, the weighted score and the adjusted overall.
ScoreParts(resume, mode, job_description, industry) ==
    PartsOf(ComponentScores(resume, mode, industry,
                            _detect_structure_flags(resume.raw_text)),
            resume, mode, industry)

\* Mutant of RoundOpt: a truthiness test, which takes 0.0 for None.
RoundOptTruthy(x) ==
    IF x = Nothing \/ x = Some(0) THEN Nothing ELSE Some(Round1(x[1]))

\* round(x, 1) if x is not None else None
RoundOpt(x) == IF x = Nothing THEN Nothing ELSE Some(Round1(x[1]))

\* The ResumeScore built at the end of score_resume.
BuildResumeScore(p, job_match_score, comments, flags, mode, industry) ==
    [overall |-> RoundHalfEven(p.overall, 10000),
     ats_compliance |-> Round1(p.ats_score),
     readability |-> Round1(p.readability_score),
     layout |-> Round1(p.layout_score),
     experience |-> RoundOpt(p.experience_score),
     skills |-> RoundOpt(p.skills_score),
     job_match |-> job_match_score,
     comments |-> comments,
     flags |-> flags,
     mode |-> mode,
     industry |-> industry,
     detailed_metrics |->
        [readability |->
            [flesch_reading_ease |-> p.readability_metrics.flesch_reading_ease,
             flesch_kincaid_grade |-> p.readability_metrics.flesch_kincaid_grade,
             avg_words_per_sentence |->
                 p.readability_metrics.avg_words_per_sentence],
         layout |-> [word_count |-> p.layout_metrics.word_count]]]

\* Job match, flags and comments from the parts, then the ResumeScore.
ScoreFromParts(p, resume, mode, job_description, industry) ==
    BuildResumeScore(p,
        IF job_description.kind = "text"
        THEN Some(_job_match_score(resume, job_description)) ELSE Nothing,
        _generate_comments(mode, p.ats_score, p.readability_score, p.layout_score,
                           p.experience_score, p.skills_score,
                           _extract_flags(resume, p.structure_flags, mode),
                           resume, industry),
        _extract_flags(resume, p.structure_flags, mode),
        mode, industry)

score_resume(resume, mode, job_description, industry) ==
    ScoreFromParts(ScoreParts(resume, mode, job_description, industry),
                   resume, mode, job_description, industry)

(***************************************************************************)
(* Inputs of score_resume.                                                 *)
(***************************************************************************)
KW(e, i, f, h) ==
    [x \in RecognisedIndustries |->
        CASE x = "engineering" -> e
          [] x = "it-software" -> i
          [] x = "finance"     -> f
          [] x = "healthcare"  -> h]

Txt(split, tokens, sentences, alpha, syllables, tables, images, columns, bias, kw) ==
    [split |-> split, tokens |-> tokens, sentences |-> sentences, alpha |-> alpha,
     syllables |-> syllables, tables |-> tables, images |-> images,
     columns |-> columns, bias |-> bias, kw |-> kw]

\* Texts at the thresholds of the code: empty text, fewer than 20 words,
\* 19/20 words, 149/150 tokens, the layout bands, more than 3 pages, very long.
EmptyText == Txt(0, 0, 0, 0, 0, FALSE, FALSE, FALSE, {}, KW(0, 0, 0, 0))
ShortText == Txt(2, 2, 1, 2, 2, FALSE, FALSE, FALSE, {}, KW(0, 0, 0, 0))
DigitsText == Txt(25, 25, 1, 0, 0, FALSE, FALSE, TRUE, {}, KW(0, 0, 0, 0))
CleanText == Txt(800, 900, 50, 760, 1250, FALSE, FALSE, FALSE, {}, KW(4, 10, 8, 3))
LongText == Txt(6000, 6500, 60, 5800, 14000, FALSE, FALSE, FALSE, {"age"}, KW(2, 3, 1, 0))

TextSamples ==
    {EmptyText, ShortText, DigitsText, CleanText, LongText,
     Txt(19, 21, 2, 18, 30, TRUE, TRUE, TRUE, {}, KW(0, 1, 0, 0)),
     Txt(20, 22, 2, 19, 30, TRUE, TRUE, TRUE, {"born"}, KW(0, 1, 0, 0)),
     Txt(140, 149, 10, 130, 220, FALSE, FALSE, TRUE, {}, KW(1, 2, 0, 0)),
     Txt(150, 160, 10, 140, 240, FALSE, TRUE, FALSE, {}, KW(3, 4, 3, 3)),
     Txt(300, 340, 20, 290, 480, TRUE, FALSE, FALSE, {"gender"}, KW(0, 3, 0, 2)),
     Txt(1575, 1700, 90, 1500, 2300, FALSE, TRUE, FALSE, {"dob", "nationality"},
         KW(8, 6, 5, 8)),
     Txt(2100, 2300, 100, 2000, 3600, TRUE, FALSE, TRUE, {"race"}, KW(5, 9, 2, 1))}

Bullet(quant, impact, verbs, upper) ==
    [quant |-> quant, impact |-> impact, verbs |-> verbs, upper |-> upper]

Plain == Bullet(FALSE, FALSE, {}, TRUE)
Lower == Bullet(FALSE, FALSE, {}, FALSE)
Verb == Bullet(FALSE, FALSE, {"it-software", "engineering"}, TRUE)
Quant == Bullet(TRUE, FALSE, {"finance"}, TRUE)
Impact == Bullet(TRUE, TRUE, {"it-software", "healthcare"}, TRUE)
ImpactOnly == Bullet(FALSE, TRUE, {}, FALSE)

ExperienceSamples ==
    {<<>>,
     << <<>> >>,
     << <<Plain>> >>,
     << <<Plain, Lower>>, <<>> >>,
     << <<Impact, Verb, Verb>> >>,
     << <<Quant, Plain, Plain, Plain, Plain, Plain, Plain>>,
        <<Quant, Verb, Verb, Verb, Plain, ImpactOnly, Plain>> >>,
     << <<Quant, Verb, Plain, Plain, Plain, Plain>>, <<Verb, Verb, Plain, Plain, Plain, Plain>> >>,
     << <<Impact, Impact, Quant, Verb>>, <<Impact, Impact, Verb, Quant>>,
        <<Impact, Quant, Quant, Verb>> >>}

Skill(category) == [category |-> category]

SkillSamples ==
    {[items |-> <<>>, kw |-> KW(0, 0, 0, 0)],
     [items |-> <<Skill(None)>>, kw |-> KW(0, 0, 0, 0)],
     [items |-> <<Skill("Programming"), Skill("Programming"), Skill("DevOps"),
                  Skill("DevOps")>>,
      kw |-> KW(0, 4, 0, 0)],
     [items |-> Rep(5, Skill(None)) \o Rep(2, Skill("Analysis"))
                \o Rep(2, Skill("Tools")) \o <<Skill("Finance")>>,
      kw |-> KW(1, 1, 4, 0)],
     [items |-> Rep(3, Skill("Programming")) \o Rep(3, Skill("DevOps"))
                \o Rep(3, Skill("Cloud")) \o Rep(3, Skill("Database"))
                \o Rep(3, Skill("Frontend")),
      kw |-> KW(2, 8, 0, 5)]}

Cert(industries) == [industries |-> industries]

CertificationSamples ==
    {<<>>, <<Cert({})>>, <<Cert({}), Cert({"it-software", "engineering"})>>,
     <<Cert({"finance", "healthcare"})>>}

Contacts == [email : {None, "john@example.com"}, phone : {None, "+1555123456"}]

Summaries == {None, "Experienced software engineer"}

Educations == {<<>>, <<"BSc Computer Science">>}

JobDescriptions ==
    {[kind |-> "none", words |-> 0, common |-> 0],
     [kind |-> "empty", words |-> 0, common |-> 0],
     [kind |-> "text", words |-> 0, common |-> 0],
     [kind |-> "text", words |-> 7, common |-> 2],
     [kind |-> "text", words |-> 3, common |-> 3]}

Industries == {None, "marketing"} \cup RecognisedIndustries

MkResume(contact, summary, experience, education, skills, certifications, text) ==
    [contact |-> contact, summary |-> summary, experience |-> experience,
     education |-> education, skills |-> skills.items, skill_kw |-> skills.kw,
     certifications |-> certifications, raw_text |-> text]

\* Every text, contact, summary and education, with a poor and a rich content.
StructureSweep ==
    {MkResume(c, s, x[1], e, x[2], x[3], t) :
        c \in Contacts, s \in Summaries, e \in Educations, t \in TextSamples,
        x \in {y \in ExperienceSamples \X SkillSamples \X CertificationSamples :
                 \/ Len(y[1]) = 0 /\ Len(y[2].items) = 0 /\ Len(y[3]) = 0
                 \/ Len(y[1]) = 3 /\ Len(y[2].items) = 15 /\ Len(y[3]) = 2
                 \/ Len(y[1]) = 1 /\ Len(y[2].items) = 1 /\ Len(y[3]) = 1}}

\* Every experience, skill list and certification list, with and without a
\* summary, on a short and on a clean text.
ContentSweep ==
    {MkResume([email |-> "john@example.com", phone |-> "+1555123456"], s, x,
              <<"BSc Computer Science">>, k, z, t) :
        x \in ExperienceSamples, k \in SkillSamples, z \in CertificationSamples,
        s \in Summaries, t \in {ShortText, CleanText}}

ScoreRequests ==
    [resume : StructureSweep, mode : ScanMode,
     job_description : JobDescriptions, industry : {None, "it-software"}]
    \cup
    [resume : ContentSweep, mode : ScanMode,
     job_description : {jd \in JobDescriptions : jd.kind = "none"},
     industry : Industries]

(***************************************************************************)
(* State machine of the scoring service: score_resume is a pure function   *)
(* of its request; the service keeps no state between requests.            *)
(***************************************************************************)
ScoreCall ==
    /\ request \in ScoreRequests
    /\ scored = Nothing

ScoreResume ==
    /\ scored = Nothing
    /\ scored' = Some(score_resume(request.resume, request.mode,
                                   request.job_description, request.industry))
    /\ UNCHANGED <<request, cache, disk, issued, reply, now>>

(***************************************************************************)
(* ResumeBuilderService                                                    *)
(*   cache : _in_memory_cache, a map from resume id to ResumeBuilder       *)
(*   disk  : the files <storage_path>/<id>.json, a map from id to the      *)
(*           JSON document written by save_resume                          *)
(*   issued: the ids uuid4 has produced so far                             *)
(*   now   : the clock read by datetime.now()                              *)
(*   reply : what the last call returned, with whether the id was in the   *)
(*           cache and on disk when the call started                       *)
(* A ResumeBuilder is the record of its fields id, title, created_at,      *)
(* updated_at, summary and experience (the other list sections behave as   *)
(* experience does).  A list field that holds Python's None, which         *)
(* update_resume can store, is NoneList.                                   *)
(***************************************************************************)
MaxIds == 2
MaxClock == 2
MaxEntries == 1

Ids == 1..MaxIds
Titles == {"My Resume", "Updated Title"}
\* A summary ProfessionalSummary accepts (50 to 500 characters).
ValidSummary ==
    "Experienced software engineer with 5+ years building scalable web applications. Expert in Python, React, and cloud technologies."

SummaryTexts == {ValidSummary}
Entries == {"Tech Corp"}

NoneList == <<None>>

FieldNames == {"id", "title", "created_at", "updated_at", "summary", "experience"}

EmptyMap == [i \in {} |-> None]

Put(map, id, value) == [i \in DOMAIN map \cup {id} |-> IF i = id THEN value ELSE map[i]]

Remove(map, id) == [i \in DOMAIN map \ {id} |-> map[i]]

\* the ResumeBuilder constructor for the data create_resume passes.
NewResumeBuilder(resume_id, title, timestamp) ==
    [id |-> resume_id, title |-> title, created_at |-> timestamp,
     updated_at |-> timestamp, summary |-> None, experience |-> <<>>]

\* resume.model_dump() written by json.dump: every field as it is held,
\* None as null.
model_dump(resume) == resume

\* the ResumeBuilder constructor on a loaded document: title is a str and
\* experience a list, neither accepts null; summary is Optional.
Validates(data) == data.title # None /\ data.experience # NoneList

(***************************************************************************)
(* ResumeBuilderService.get_resume as a function of the state: what it     *)
(* returns ("resume", None or "ValidationError" when the ResumeBuilder constructor *)
(* raises) and the cache it leaves.                                        *)
(***************************************************************************)
\* Mutant of get_resume: the file is read even when the resume is cached.
get_resume_from_disk_first(c, d, resume_id) ==
    IF resume_id \in DOMAIN d
    THEN IF Validates(d[resume_id])
         THEN [ret |-> "resume", resume |-> Some(d[resume_id]),
               cache |-> Put(c, resume_id, d[resume_id])]
         ELSE [ret |-> "ValidationError", resume |-> Nothing, cache |-> c]
    ELSE IF resume_id \in DOMAIN c
    THEN [ret |-> "resume", resume |-> Some(c[resume_id]), cache |-> c]
    ELSE [ret |-> None, resume |-> Nothing, cache |-> c]

get_resume(c, d, resume_id) ==
    IF resume_id \in DOMAIN c
    THEN [ret |-> "resume", resume |-> Some(c[resume_id]), cache |-> c]
    ELSE IF resume_id \in DOMAIN d
    THEN IF Validates(d[resume_id])
         THEN [ret |-> "resume", resume |-> Some(d[resume_id]),
               cache |-> Put(c, resume_id, d[resume_id])]
         ELSE [ret |-> "ValidationError", resume |-> Nothing, cache |-> c]
    ELSE [ret |-> None, resume |-> Nothing, cache |-> c]

Reply(op, id, ret, resume, listing) ==
    [op |-> op, id |-> id, ret |-> ret, resume |-> resume, listing |-> listing,
     was_cached |-> id \in DOMAIN cache, was_on_disk |-> id \in DOMAIN disk]

\* ResumeBuilderService.create_resume.  uuid4 returns an id never returned
\* before; ids are interchangeable, so the smallest unused one stands for it.
CreateResume ==
    \E title \in Titles, resume_id \in Ids \ issued :
        /\ \A other \in Ids \ issued : resume_id <= other
        /\ now < MaxClock
        /\ now' = now + 1
        /\ issued' = issued \cup {resume_id}
        /\ LET resume == NewResumeBuilder(resume_id, title, now + 1)
           IN  /\ cache' = Put(cache, resume_id, resume)
               /\ reply' = Reply("create", resume_id, "resume", Some(resume), <<>>)
        /\ UNCHANGED <<disk, request, scored>>

\* ResumeBuilderService.get_resume
GetResume ==
    \E resume_id \in Ids :
        LET got == get_resume(cache, disk, resume_id)
        IN  /\ cache' = got.cache
            /\ reply' = Reply("get", resume_id, got.ret, got.resume, <<>>)
            /\ UNCHANGED <<disk, issued, now, request, scored>>

\* ResumeUpdate objects: the fields set explicitly, each to a value its
\* Optional type admits (None included).
UpdateSamples ==
    {[f \in {"title"} |-> "Updated Title"],
     [f \in {"title"} |-> None],
     [f \in {"summary"} |-> ValidSummary],
     [f \in {"experience"} |-> <<"Tech Corp">>],
     [f \in {"experience"} |-> NoneList],
     [f \in {"title", "summary"} |-> IF f = "title" THEN "My Resume" ELSE None]}

\* update_resume that builds the resume anew from the update: a field the
\* update does not set gets its default.
ApplyUpdate_replacing(resume, update_dict, timestamp) ==
    [f \in FieldNames |->
        IF f = "updated_at" THEN timestamp
        ELSE IF f \in DOMAIN update_dict THEN update_dict[f]
        ELSE IF f \in {"id", "created_at"} THEN resume[f]
        ELSE NewResumeBuilder(resume.id, "My Resume", timestamp)[f]]

\* The setattr loop of update_resume followed by the timestamp.
ApplyUpdate(resume, update_dict, timestamp) ==
    [f \in FieldNames |->
        IF f = "updated_at" THEN timestamp
        ELSE IF f \in DOMAIN update_dict THEN update_dict[f]
        ELSE resume[f]]

\* ResumeBuilderService.update_resume
UpdateResume ==
    \E resume_id \in Ids, update_data \in UpdateSamples :
        LET got == get_resume(cache, disk, resume_id)
        IN  IF got.ret # "resume"
            THEN /\ cache' = got.cache
                 /\ reply' = Reply("update", resume_id, got.ret, Nothing, <<>>)
                                @@ [update |-> update_data]
                 /\ UNCHANGED <<disk, issued, now, request, scored>>
            ELSE /\ now < MaxClock
                 /\ now' = now + 1
                 /\ LET resume == ApplyUpdate(got.resume[1], update_data, now + 1)
                    IN  /\ cache' = Put(got.cache, resume_id, resume)
                        /\ reply' = Reply("update", resume_id, "resume",
                                          Some(resume), <<>>)
                                       @@ [update |-> update_data]
                 /\ UNCHANGED <<disk, issued, request, scored>>

\* ResumeBuilderService.delete_resume
delete_result(c, d, resume_id) ==
    IF resume_id \in DOMAIN d
    THEN [ret |-> "True", cache |-> Remove(c, resume_id), disk |-> Remove(d, resume_id)]
    ELSE [ret |-> "False", cache |-> Remove(c, resume_id), disk |-> d]

DeleteResume ==
    \E resume_id \in Ids :
        LET r == delete_result(cache, disk, resume_id)
        IN  /\ cache' = r.cache
            /\ disk' = r.disk
            /\ reply' = Reply("delete", resume_id, r.ret, Nothing, <<>>)
            /\ UNCHANGED <<issued, now, request, scored>>

\* ResumeBuilderService.save_resume, reached as the save route reaches it:
\* get_resume(resume_id), 404 when that is None, then save_resume(resume).
save_resume(d, resume) == Put(d, resume.id, model_dump(resume))

SaveResume ==
    \E resume_id \in Ids :
        LET got == get_resume(cache, disk, resume_id)
        IN  /\ cache' = got.cache
            /\ IF got.ret = "resume"
               THEN /\ disk' = save_resume(disk, got.resume[1])
                    /\ reply' = Reply("save", resume_id, "True", got.resume, <<>>)
               ELSE /\ disk' = disk
                    /\ reply' = Reply("save", resume_id, got.ret, Nothing, <<>>)
            /\ UNCHANGED <<issued, now, request, scored>>

\* The cache of a new ResumeBuilderService (process restart), or
\* _in_memory_cache.clear() as the persistence test does.
ClearCache ==
    /\ cache # EmptyMap
    /\ cache' = EmptyMap
    /\ reply' = Reply("clear", 0, None, Nothing, <<>>)
    /\ UNCHANGED <<disk, issued, now, request, scored>>

\* ResumeBuilderService.list_resumes: the cached resumes, then the files
\* whose id is not cached (each in ascending id order here).  Only the id
\* and the title of each entry are kept.
RECURSIVE ListOf(_, _)
ListOf(map, ids) ==
    IF ids = {} THEN <<>>
    ELSE LET i == CHOOSE x \in ids : \A y \in ids : x <= y
         IN  <<[id |-> map[i].id, title |-> map[i].title]>> \o ListOf(map, ids \ {i})

\* list_resumes that lists every file, cached or not.
list_resumes_every_file(c, d) == ListOf(c, DOMAIN c) \o ListOf(d, DOMAIN d)

list_resumes(c, d) == ListOf(c, DOMAIN c) \o ListOf(d, DOMAIN d \ DOMAIN c)

ListResumes ==
    /\ reply' = Reply("list", 0, "list", Nothing, list_resumes(cache, disk))
    /\ UNCHANGED <<cache, disk, issued, now, request, scored>>

\* ResumeBuilderService.add_section_entry.  section is "experience" or a
\* section the method does not handle (its else branch).  Appending to a
\* list field that holds None raises inside the try block: None is returned.
AddSectionEntry ==
    \E resume_id \in Ids, section \in {"experience", "summary"}, entry \in Entries :
        LET got == get_resume(cache, disk, resume_id)
            ok == /\ got.ret = "resume"
                  /\ section = "experience"
                  /\ got.resume[1].experience # NoneList
        IN  IF ~ok
            THEN /\ cache' = got.cache
                 /\ reply' = Reply("add", resume_id,
                                   IF got.ret = "resume" THEN None ELSE got.ret,
                                   Nothing, <<>>)
                 /\ UNCHANGED <<disk, issued, now, request, scored>>
            ELSE /\ now < MaxClock
                 /\ Len(got.resume[1].experience) < MaxEntries
                 /\ now' = now + 1
                 /\ LET old == got.resume[1]
                        resume == [old EXCEPT !.experience = Append(@, entry),
                                              !.updated_at = now + 1]
                    IN  /\ cache' = Put(got.cache, resume_id, resume)
                        /\ reply' = Reply("add", resume_id, "resume", Some(resume), <<>>)
                 /\ UNCHANGED <<disk, issued, request, scored>>

\* list.pop(entry_index) when 0 <= entry_index < len(list); entry_index is
\* 0-based.
Pop(list, entry_index) ==
    IF 0 <= entry_index /\ entry_index < Len(list)
    THEN SubSeq(list, 1, entry_index) \o SubSeq(list, entry_index + 2, Len(list))
    ELSE list

\* ResumeBuilderService.remove_section_entry.  len() of a list field that
\* holds None raises inside the try block: None is returned.
RemoveSectionEntry ==
    \E resume_id \in Ids, section \in {"experience", "summary"},
       entry_index \in -1..MaxEntries :
        LET got == get_resume(cache, disk, resume_id)
            ok == /\ got.ret = "resume"
                  /\ section = "experience"
                  /\ got.resume[1].experience # NoneList
        IN  IF ~ok
            THEN /\ cache' = got.cache
                 /\ reply' = Reply("remove", resume_id,
                                   IF got.ret = "resume" THEN None ELSE got.ret,
                                   Nothing, <<>>)
                                @@ [section |-> section, entry_index |-> entry_index]
                 /\ UNCHANGED <<disk, issued, now, request, scored>>
            ELSE /\ now < MaxClock
                 /\ now' = now + 1
                 /\ LET old == got.resume[1]
                        resume == [old EXCEPT !.experience = Pop(@, entry_index),
                                              !.updated_at = now + 1]
                    IN  /\ cache' = Put(got.cache, resume_id, resume)
                        /\ reply' = Reply("remove", resume_id, "resume",
                                          Some(resume), <<>>)
                                       @@ [section |-> section, entry_index |-> entry_index]
                 /\ UNCHANGED <<disk, issued, request, scored>>

InitBuilder ==
    /\ cache = EmptyMap
    /\ disk = EmptyMap
    /\ issued = {}
    /\ now = 0
    /\ reply = [op |-> "init", id |-> 0, ret |-> None, resume |-> Nothing,
                listing |-> <<>>, was_cached |-> FALSE, was_on_disk |-> FALSE]

Init ==
    /\ InitBuilder
    /\ request = Nothing
    /\ scored = Nothing

Next ==
    \/ CreateResume
    \/ GetResume
    \/ UpdateResume
    \/ DeleteResume
    \/ SaveResume
    \/ ClearCache
    \/ ListResumes
    \/ AddSectionEntry
    \/ RemoveSectionEntry

Spec == Init /\ [][Next]_vars

\* A call of score_resume; the builder service is idle.
InitScore ==
    /\ InitBuilder
    /\ ScoreCall

SpecScore == InitScore /\ [][ScoreResume]_vars

(***************************************************************************)
(* AutoFixService.apply_fix and the auto-fix routes of builder_routes.      *)
(* An AutoFix is the record of its fix_type, action, suggested_value and   *)
(* auto_applicable (section, description, original_value and metadata are   *)
(* not read by apply_fix).  A summary is held as its text.                  *)
(***************************************************************************)
SummaryMinLength == 50
SummaryMaxLength == 500

\* Python str(): the text itself, "None" for None.
PyStr(value) == IF value = None THEN "None" ELSE value

\* ProfessionalSummary(summary=text) validates: min_length and max_length.
SummaryValidates(text) == Len(text) >= SummaryMinLength /\ Len(text) <= SummaryMaxLength

\* The template _fix_summary suggests for a resume without experience.
TemplateSummary ==
    "Experienced Professional with proven track record in [key achievement]. Skilled in [top 3 skills] with expertise in [domain]. Passionate about [value proposition] and driving [business outcome]."

\* The suggested value of test_apply_summary_fix.
TestSummary == "Experienced software engineer with 5 years..."

FixTypes ==
    {"length", "summary", "readability", "formatting", "quantification",
     "contact", "dates", "bullets", "keywords"}

FixActions == {"add", "remove", "modify", "reformat", "suggest"}

AutoFix(fix_type, action, suggested_value, auto_applicable) ==
    [fix_type |-> fix_type, action |-> action,
     suggested_value |-> suggested_value, auto_applicable |-> auto_applicable]

\* Mutant of apply_fix: auto_applicable is not looked at.
apply_fix_ignoring_flag(resume_builder, fix) ==
    IF fix.fix_type = "summary" /\ fix.action = "add" /\ ~Truthy(resume_builder.summary)
    THEN IF SummaryValidates(PyStr(fix.suggested_value))
         THEN [success |-> TRUE,
               message |-> "Professional summary added successfully",
               updated |-> Some([resume_builder EXCEPT
                                   !.summary = PyStr(fix.suggested_value)]),
               resume_builder |-> [resume_builder EXCEPT
                                     !.summary = PyStr(fix.suggested_value)]]
         ELSE [success |-> FALSE, message |-> "Error applying fix: ValidationError",
               updated |-> Nothing, resume_builder |-> resume_builder]
    ELSE [success |-> FALSE,
          message |-> "Auto-fix for " \o fix.fix_type \o " not yet implemented",
          updated |-> Nothing, resume_builder |-> resume_builder]

\* Mutant of apply_fix: a SUMMARY/ADD fix is applied whether or not the
\* builder has a summary.
apply_fix_overwriting(resume_builder, fix) ==
    IF ~fix.auto_applicable
    THEN [success |-> FALSE, message |-> "This fix requires manual intervention",
          updated |-> Nothing, resume_builder |-> resume_builder]
    ELSE IF fix.fix_type = "summary" /\ fix.action = "add"
    THEN IF SummaryValidates(PyStr(fix.suggested_value))
         THEN [success |-> TRUE,
               message |-> "Professional summary added successfully",
               updated |-> Some([resume_builder EXCEPT
                                   !.summary = PyStr(fix.suggested_value)]),
               resume_builder |-> [resume_builder EXCEPT
                                     !.summary = PyStr(fix.suggested_value)]]
         ELSE [success |-> FALSE, message |-> "Error applying fix: ValidationError",
               updated |-> Nothing, resume_builder |-> resume_builder]
    ELSE [success |-> FALSE,
          message |-> "Auto-fix for " \o fix.fix_type \o " not yet implemented",
          updated |-> Nothing, resume_builder |-> resume_builder]

\* AutoFixService.apply_fix: the tuple (success, message, updated) and the
\* resume_builder argument as the call leaves it (it is changed in place).
apply_fix(resume_builder, fix) ==
    IF ~fix.auto_applicable
    THEN [success |-> FALSE, message |-> "This fix requires manual intervention",
          updated |-> Nothing, resume_builder |-> resume_builder]
    ELSE IF fix.fix_type = "summary" /\ fix.action = "add"
            /\ ~Truthy(resume_builder.summary)
    THEN IF SummaryValidates(PyStr(fix.suggested_value))
         THEN [success |-> TRUE,
               message |-> "Professional summary added successfully",
               updated |-> Some([resume_builder EXCEPT
                                   !.summary = PyStr(fix.suggested_value)]),
               resume_builder |-> [resume_builder EXCEPT
                                     !.summary = PyStr(fix.suggested_value)]]
         ELSE [success |-> FALSE, message |-> "Error applying fix: ValidationError",
               updated |-> Nothing, resume_builder |-> resume_builder]
    ELSE [success |-> FALSE,
          message |-> "Auto-fix for " \o fix.fix_type \o " not yet implemented",
          updated |-> Nothing, resume_builder |-> resume_builder]

\* fix_data of the apply-fix route: the dictionaries the analyze route
\* returns, with any suggested value, and one whose fix_type is no FixType.
FixDataSamples ==
    {AutoFix(t, a, v, f) :
        t \in {"summary", "length", "contact"}, a \in {"add", "modify"},
        v \in {None, TestSummary, TemplateSummary}, f \in BOOLEAN}
    \cup {AutoFix("unknown", "add", TemplateSummary, TRUE)}

\* What a route answers: the status code in ret, the detail of the
\* HTTPException or the message of the BuilderResponse in detail; for
\* apply-fix also the fix, the builder apply_fix was given and its tuple.
RouteReply(op, id, status, detail, resume, fix, builder, applied) ==
    [op |-> op, id |-> id, ret |-> status, detail |-> detail, resume |-> resume,
     listing |-> <<>>, fix |-> fix, builder |-> builder, applied |-> applied,
     was_cached |-> id \in DOMAIN cache, was_on_disk |-> id \in DOMAIN disk]

\* str(HTTPException(status_code=404, detail="Resume not found")), the
\* detail of the 500 the handler's "except Exception" raises in its place.
NotFoundAs500 == "404: Resume not found"

\* POST /builder/{resume_id}/apply-fix.  The whole handler is inside
\* try/except Exception, which turns its own 404 and every other exception
\* into a 500.
ApplyAutoFix ==
    \E resume_id \in Ids, fix_data \in FixDataSamples :
        LET got == get_resume(cache, disk, resume_id)
        IN  /\ UNCHANGED <<disk, issued, now, request, scored>>
            /\ IF got.ret = "ValidationError"
               THEN /\ cache' = got.cache
                    /\ reply' = RouteReply("apply-fix", resume_id, "500",
                                    "ValidationError", Nothing, fix_data,
                                    Nothing, Nothing)
               ELSE IF got.ret = None
               THEN /\ cache' = got.cache
                    /\ reply' = RouteReply("apply-fix", resume_id, "500",
                                    NotFoundAs500, Nothing, fix_data,
                                    Nothing, Nothing)
               ELSE IF fix_data.fix_type \notin FixTypes
                       \/ fix_data.action \notin FixActions
               THEN /\ cache' = got.cache
                    /\ reply' = RouteReply("apply-fix", resume_id, "500",
                                    "ValueError", Nothing, fix_data,
                                    Nothing, Nothing)
               ELSE LET r == apply_fix(got.resume[1], fix_data)
                    IN  /\ cache' = Put(got.cache, resume_id, r.resume_builder)
                        /\ reply' = RouteReply("apply-fix", resume_id, "200",
                                        r.message, Some(r.resume_builder),
                                        fix_data, got.resume, Some(r))

\* POST /builder/{resume_id}/analyze.  Every ResumeBuilder of this model
\* has contact = None (create_resume sets none and no update here sets
\* one), so the handler's Resume(contact=None, ...) is rejected by the
\* validation of Resume.contact and the handler never reaches the scoring.
AnalyzeForFixes ==
    \E resume_id \in Ids, mode \in ScanMode :
        LET got == get_resume(cache, disk, resume_id)
        IN  /\ UNCHANGED <<disk, issued, now, request, scored>>
            /\ cache' = got.cache
            /\ reply' = RouteReply("analyze", resume_id, "500",
                            IF got.ret = None THEN NotFoundAs500
                            ELSE "ValidationError",
                            Nothing, [mode |-> mode], Nothing, Nothing)

\* The builders the auto-fix routes find: a resume as create_resume makes
\* it, with or without a summary, and one whose title update_resume has
\* set to None.
FixBuilders ==
    {[NewResumeBuilder(1, "My Resume", 1) EXCEPT !.summary = s, !.title = t] :
        s \in {None, ValidSummary}, t \in {"My Resume", None}}

FixStores == {EmptyMap} \cup {Put(EmptyMap, 1, b) : b \in FixBuilders}

\* The auto-fix routes on a service that holds at most the resume 1, in
\* the cache, on disk or both.
InitFix ==
    /\ cache \in FixStores
    /\ disk \in FixStores
    /\ issued = {1}
    /\ now = 1
    /\ reply = [op |-> "init", id |-> 0, ret |-> None, resume |-> Nothing,
                listing |-> <<>>, was_cached |-> FALSE, was_on_disk |-> FALSE]
    /\ request = Nothing
    /\ scored = Nothing

NextFix ==
    \/ ApplyAutoFix
    \/ AnalyzeForFixes

SpecFix == InitFix /\ [][NextFix]_vars

(***************************************************************************)
(* Text.  A Python str that the code inspects character by character (a    *)
(* file name, the text of a block or of a paragraph) is the sequence of    *)
(* its characters; the messages the code only passes on are strings.       *)
(***************************************************************************)
Whitespace == {" ", "\n", "\t"}

Digits == {"0", "1", "2", "3", "4", "5", "6", "7", "8", "9"}

UpperCase == <<"A", "B", "C", "D", "E", "F", "G", "H", "I", "J", "K", "L", "M", "N", "O", "P", "Q", "R", "S", "T", "U", "V", "W", "X", "Y", "Z">>

LowerCase == <<"a", "b", "c", "d", "e", "f", "g", "h", "i", "j", "k", "l", "m", "n", "o", "p", "q", "r", "s", "t", "u", "v", "w", "x", "y", "z">>

\* str.lower() of one character
LowerChar(c) ==
    IF \E i \in 1..Len(UpperCase) : UpperCase[i] = c
    THEN LowerCase[CHOOSE i \in 1..Len(UpperCase) : UpperCase[i] = c]
    ELSE c

\* str.lower()
ToLower(s) == [i \in 1..Len(s) |-> LowerChar(s[i])]

\* str.endswith(suffix)
EndsWith(s, suffix) ==
    /\ Len(s) >= Len(suffix)
    /\ SubSeq(s, Len(s) - Len(suffix) + 1, Len(s)) = suffix

\* str.strip()
Strip(s) ==
    LET inked == {i \in 1..Len(s) : s[i] \notin Whitespace}
    IN  IF inked = {} THEN <<>>
        ELSE SubSeq(s, CHOOSE i \in inked : \A j \in inked : i <= j,
                       CHOOSE i \in inked : \A j \in inked : i >= j)

\* str.split(c) for a single character c
RECURSIVE Split(_, _)
Split(s, c) ==
    LET at == {i \in 1..Len(s) : s[i] = c}
    IN  IF at = {} THEN <<s>>
        ELSE LET i == CHOOSE k \in at : \A j \in at : k <= j
             IN  <<SubSeq(s, 1, i - 1)>> \o Split(SubSeq(s, i + 1, Len(s)), c)

\* sep.join(parts)
RECURSIVE Join(_, _)
Join(parts, sep) ==
    IF parts = <<>> THEN <<>>
    ELSE IF Len(parts) = 1 THEN parts[1]
    ELSE parts[1] \o sep \o Join(Tail(parts), sep)

\* re.sub(r' +', ' ', text)
RECURSIVE CollapseSpaces(_)
CollapseSpaces(s) ==
    IF Len(s) <= 1 THEN s
    ELSE IF s[1] = " " /\ s[2] = " " THEN CollapseSpaces(Tail(s))
    ELSE <<s[1]>> \o CollapseSpaces(Tail(s))

\* The length of the run of characters c that s starts with.
RECURSIVE RunLength(_, _)
RunLength(s, c) ==
    IF s = <<>> \/ s[1] # c THEN 0 ELSE 1 + RunLength(Tail(s), c)

\* re.sub(r'\n{4,}', '\n\n', text)
RECURSIVE CollapseNewlines(_)
CollapseNewlines(s) ==
    IF s = <<>> THEN s
    ELSE IF s[1] = "\n"
         THEN LET n == RunLength(s, "\n")
              IN  (IF n >= 4 THEN <<"\n", "\n">> ELSE SubSeq(s, 1, n))
                    \o CollapseNewlines(SubSeq(s, n + 1, Len(s)))
         ELSE <<s[1]>> \o CollapseNewlines(Tail(s))

\* The subsequence of the elements of s whose index is in keep.
RECURSIVE Keep(_, _)
Keep(s, keep) ==
    IF s = <<>> THEN <<>>
    ELSE Keep(SubSeq(s, 1, Len(s) - 1), keep)
           \o (IF Len(s) \in keep THEN <<s[Len(s)]>> ELSE <<>>)

(***************************************************************************)
(* pdf_reader                                                              *)
(*   What PyMuPDF makes of the bytes is part of the input: fitz.open       *)
(*   either raises (opens FALSE, with the exception) or yields the pages,  *)
(*   each with its blocks (x0, y0, x1, y1, text, block_no, block_type)     *)
(*   and its plain text, page.get_text("text").                            *)
(***************************************************************************)
\* an exception
Raise(class, message) == [raised |-> TRUE, class |-> class, message |-> message]

\* a returned value
Return(value) == [raised |-> FALSE, value |-> value]

_is_page_number(text) ==
    LET cleaned == Keep(text, {i \in 1..Len(text) : text[i] \in Digits})
    IN  cleaned # <<>> /\ Len(cleaned) <= 3 /\ Len(text) <= 10

_clean_text(text) ==
    LET lines == Split(CollapseNewlines(CollapseSpaces(text)), "\n")
    IN  Strip(Join([i \in 1..Len(lines) |-> Strip(lines[i])], <<"\n">>))

\* sorted(blocks, key=lambda b: (b[1], b[0])): by y0 then x0, stable
RECURSIVE sorted_blocks(_)
sorted_blocks(blocks) ==
    IF blocks = <<>> THEN <<>>
    ELSE LET before(a, b) == a.y0 < b.y0 \/ (a.y0 = b.y0 /\ a.x0 < b.x0)
             least == CHOOSE i \in 1..Len(blocks) :
                         /\ \A j \in 1..Len(blocks) : ~before(blocks[j], blocks[i])
                         /\ \A j \in 1..(i - 1) : before(blocks[i], blocks[j])
         IN  <<blocks[least]>> \o sorted_blocks(Keep(blocks, (1..Len(blocks)) \ {least}))

\* The text a block contributes to its page: none for an image block, a
\* blank block, a page number or a block less than 5 high.
BlockText(block) ==
    LET text == Strip(block.text)
    IN  IF block.block_type # 0 \/ text = <<>> THEN <<>>
        ELSE IF _is_page_number(text) THEN <<>>
        ELSE IF block.y1 - block.y0 < 5 THEN <<>>
        ELSE IF _clean_text(text) # <<>> THEN <<_clean_text(text)>>
        ELSE <<>>

\* page_text_parts of one page
PageTextParts(page) ==
    LET blocks == sorted_blocks(page.blocks)
    IN  Flatten([i \in 1..Len(blocks) |-> BlockText(blocks[i])])

\* raw_text_found: some text block of some page is not blank
RawTextFound(pages) ==
    \E p \in 1..Len(pages) : \E b \in 1..Len(pages[p].blocks) :
        /\ pages[p].blocks[b].block_type = 0
        /\ Strip(pages[p].blocks[b].text) # <<>>

\* [page.get_text("text").strip() for page in doc if text and text.strip()]
SimpleTextParts(pages) ==
    Flatten([p \in 1..Len(pages) |->
        IF Strip(pages[p].text) # <<>> THEN <<Strip(pages[p].text)>> ELSE <<>>])

\* The block extraction of read_pdf, then its two fallbacks.
ExtractPdf(pages, page_parts) ==
    LET all_blocks == Flatten(page_parts)
        kept == Keep(page_parts, {p \in 1..Len(page_parts) : page_parts[p] # <<>>})
        full_text == Join([p \in 1..Len(kept) |-> Join(kept[p], <<"\n">>)], <<"\n", "\n">>)
        simple == SimpleTextParts(pages)
        first == IF (full_text = <<>> \/ all_blocks = <<>>) /\ RawTextFound(pages) /\ simple # <<>>
                 THEN [full_text |-> Join(simple, <<"\n", "\n">>), blocks |-> simple]
                 ELSE [full_text |-> full_text, blocks |-> all_blocks]
    IN  IF (first.full_text = <<>> \/ first.blocks = <<>>) /\ simple # <<>>
        THEN [full_text |-> Join(simple, <<"\n", "\n">>), blocks |-> simple]
        ELSE first

UnableToExtract == "Unable to extract text from PDF. This may be a scanned/image-based PDF that requires OCR."

read_pdf(file) ==
    IF ~file.fitz.opens
    THEN IF file.fitz.error.class \in {"FileDataError", "EmptyFileError"}
         THEN Raise("ValueError", "Invalid PDF file: " \o file.fitz.error.message)
         ELSE Raise("ValueError", "Error reading PDF: " \o file.fitz.error.message)
    ELSE IF Len(file.fitz.pages) = 0 THEN Raise("ValueError", "PDF contains no pages")
    ELSE LET pages == file.fitz.pages
             found == ExtractPdf(pages, [p \in 1..Len(pages) |-> PageTextParts(pages[p])])
         IN  IF found.full_text = <<>> \/ found.blocks = <<>>
             THEN Raise("ValueError", UnableToExtract)
             ELSE Return([full_text |-> found.full_text, blocks |-> found.blocks,
                          page_count |-> Len(pages)])

(***************************************************************************)
(* docx_reader                                                             *)
(*   What python-docx makes of the bytes is part of the input: Document    *)
(*   either raises or yields the paragraphs (text and style name, None     *)
(*   for a paragraph without style) and the tables (rows of cell texts).   *)
(***************************************************************************)
\* The sample style names that one of the heading patterns matches once
\* lowered: ^heading\s*\d*$, ^title$, ^subtitle$.
HeadingStyles == {"Heading 1", "Heading 2", "heading", "Title", "Subtitle"}

_is_heading_style(style) == style \in HeadingStyles

\* ' | '.join of the non-blank cells of a row
RowText(row) ==
    LET cells == Keep([i \in 1..Len(row) |-> Strip(row[i])],
                      {i \in 1..Len(row) : Strip(row[i]) # <<>>})
    IN  Join(cells, <<" ", "|", " ">>)

_extract_table_text(table) ==
    LET rows == Keep([i \in 1..Len(table) |-> RowText(table[i])],
                     {i \in 1..Len(table) : RowText(table[i]) # <<>>})
    IN  Join(rows, <<"\n">>)

\* The structured block of a paragraph or of a table.
StructuredBlock(text, style) ==
    [text |-> text, style |-> style, is_heading |-> _is_heading_style(style)]

DocxRead(doc) ==
    LET paragraphs == Keep(doc.paragraphs,
                           {i \in 1..Len(doc.paragraphs) : Strip(doc.paragraphs[i].text) # <<>>})
        tables == Keep(doc.tables,
                       {i \in 1..Len(doc.tables) : _extract_table_text(doc.tables[i]) # <<>>})
        from_paragraphs == [i \in 1..Len(paragraphs) |->
            StructuredBlock(Strip(paragraphs[i].text),
                            IF paragraphs[i].style # None THEN paragraphs[i].style ELSE "Normal")]
        from_tables == [i \in 1..Len(tables) |->
            [text |-> _extract_table_text(tables[i]), style |-> "Table", is_heading |-> FALSE]]
        structured_blocks == from_paragraphs \o from_tables
        blocks == [i \in 1..Len(structured_blocks) |-> structured_blocks[i].text]
    IN  [full_text |-> Join(blocks, <<"\n", "\n">>), blocks |-> blocks,
         structured_blocks |-> structured_blocks]

\* DOCXReader.read: an exception of Document(...) is not caught.
DOCXReader_read(file_source) ==
    IF ~file_source.docx.opens
    THEN Raise(file_source.docx.error.class, file_source.docx.error.message)
    ELSE Return(DocxRead(file_source.docx))

(***************************************************************************)
(* document_loader                                                         *)
(*   An upload is its filename (Nothing for None), whether                 *)
(*   reading it succeeds, and its content: the number of bytes and what    *)
(*   the two libraries make of them.  load_document either returns a       *)
(*   RawDocument (status 200) or raises an HTTPException; readers lists    *)
(*   the readers it called.                                                *)
(***************************************************************************)
MAX_FILE_SIZE == 10 * 1024 * 1024

ALLOWED_EXTENSIONS == {<<".", "p", "d", "f">>, <<".", "d", "o", "c", "x">>, <<".", "d", "o", "c">>}

\* ', '.join(ALLOWED_EXTENSIONS): a set is iterated in any order.
AllowedJoined ==
    {".pdf, .docx, .doc", ".pdf, .doc, .docx", ".docx, .pdf, .doc",
     ".docx, .doc, .pdf", ".doc, .pdf, .docx", ".doc, .docx, .pdf"}

HTTPException(status_code, detail, readers) ==
    [op |-> "load_document", status |-> status_code, detail |-> detail,
     document |-> Nothing, readers |-> readers]

RawDocument(full_text, blocks, page_count, readers) ==
    [op |-> "load_document", status |-> 200, detail |-> "",
     document |-> Some([full_text |-> full_text, blocks |-> blocks,
                        page_count |-> page_count]),
     readers |-> readers]

\* The try block of load_document: the reader for ext, its ValueError
\* answered with 422 and any other exception with 500.
ParseByExtension(ext, data) ==
    LET reader == IF ext = <<".", "p", "d", "f">> THEN "read_pdf" ELSE "DOCXReader.read"
        result == IF reader = "read_pdf" THEN read_pdf(data) ELSE DOCXReader_read(data)
    IN  IF ~result.raised
        THEN RawDocument(result.value.full_text, result.value.blocks,
                         IF reader = "read_pdf" THEN Some(result.value.page_count) ELSE Nothing,
                         <<reader>>)
        ELSE IF result.class = "ValueError"
        THEN HTTPException(422, "Could not parse document: " \o result.message, <<reader>>)
        ELSE HTTPException(500, "Internal error parsing document: " \o result.message, <<reader>>)

\* load_document without the size check.
load_document_any_size(upload_file, joined) ==
    IF upload_file.filename = Nothing \/ upload_file.filename[1] = <<>>
    THEN HTTPException(400, "No filename provided", <<>>)
    ELSE LET filename == ToLower(upload_file.filename[1])
             matching == {e \in ALLOWED_EXTENSIONS : EndsWith(filename, e)}
         IN  IF matching = {}
             THEN HTTPException(400, "Unsupported file type. Allowed: " \o joined, <<>>)
             ELSE IF ~upload_file.readable
             THEN HTTPException(400, "Error reading file", <<>>)
             ELSE IF upload_file.data.size = 0
             THEN HTTPException(400, "File is empty", <<>>)
             ELSE ParseByExtension(CHOOSE e \in matching : TRUE, upload_file.data)

\* load_document(upload_file); joined is the order in which this run
\* iterates ALLOWED_EXTENSIONS for the message.
load_document(upload_file, joined) ==
    IF upload_file.filename = Nothing \/ upload_file.filename[1] = <<>>
    THEN HTTPException(400, "No filename provided", <<>>)
    ELSE LET filename == ToLower(upload_file.filename[1])
             matching == {e \in ALLOWED_EXTENSIONS : EndsWith(filename, e)}
         IN  IF matching = {}
             THEN HTTPException(400, "Unsupported file type. Allowed: " \o joined, <<>>)
             ELSE IF ~upload_file.readable
             THEN HTTPException(400, "Error reading file", <<>>)
             ELSE IF upload_file.data.size > MAX_FILE_SIZE
             THEN HTTPException(400, "File too large. Maximum size: 10.0MB", <<>>)
             ELSE IF upload_file.data.size = 0
             THEN HTTPException(400, "File is empty", <<>>)
             ELSE ParseByExtension(CHOOSE e \in matching : TRUE, upload_file.data)

(***************************************************************************)
(* Uploads                                                                 *)
(***************************************************************************)
Filenames ==
    {Nothing, Some(<<>>),
     Some(<<"r", "e", "s", "u", "m", "e", ".", "p", "d", "f">>), Some(<<"C", "V", ".", "P", "D", "F">>), Some(<<"c", "v", ".", "d", "o", "c", "x">>), Some(<<"o", "l", "d", ".", "d", "o", "c">>), Some(<<"d", "o", "c", "u", "m", "e", "n", "t", ".", "t", "x", "t">>), Some(<<"p", "d", "f">>)}

FitzOpens(pages) == [opens |-> TRUE, pages |-> pages]

FitzRaises(class, message) == [opens |-> FALSE, error |-> [class |-> class, message |-> message]]

DocxOpens(paragraphs, tables) == [opens |-> TRUE, paragraphs |-> paragraphs, tables |-> tables]

DocxRaises(class, message) == [opens |-> FALSE, error |-> [class |-> class, message |-> message]]

NotAZip == DocxRaises("BadZipFile", "File is not a zip file")

NotAPdf == FitzRaises("FileDataError", "Failed to open stream")

Page(blocks, text) == [blocks |-> blocks, text |-> text]

\* The pages of the sample PDF files.
PdfSamples ==
    {<<>>,
     <<Page(<<>>, <<>>)>>,
     <<Page(<<[x0 |-> 0, y0 |-> 0, x1 |-> 100, y1 |-> 200, text |-> <<>>, block_no |-> 0, block_type |-> 1]>>, <<>>)>>,
     <<Page(<<[x0 |-> 50, y0 |-> 100, x1 |-> 150, y1 |-> 112, text |-> <<"P", "y", "t", "h", "o", "n", " ", " ", "d", "e", "v", "e", "l", "o", "p", "e", "r", "\n", "\n", "\n", "\n", "\n", "2", "0", "2", "0">>, block_no |-> 0, block_type |-> 0], [x0 |-> 50, y0 |-> 20, x1 |-> 150, y1 |-> 34, text |-> <<"J", "o", " ", "D", "o", "e">>, block_no |-> 1, block_type |-> 0]>>, <<"J", "o", " ", "D", "o", "e", "\n", "P", "y", "t", "h", "o", "n", " ", "d", "e", "v", "e", "l", "o", "p", "e", "r">>)>>,
     <<Page(<<[x0 |-> 300, y0 |-> 40, x1 |-> 400, y1 |-> 52, text |-> <<"S", "k", "i", "l", "l", "s">>, block_no |-> 0, block_type |-> 0], [x0 |-> 20, y0 |-> 40, x1 |-> 120, y1 |-> 52, text |-> <<"W", "o", "r", "k">>, block_no |-> 1, block_type |-> 0]>>, <<"W", "o", "r", "k", " ", "S", "k", "i", "l", "l", "s">>), Page(<<[x0 |-> 20, y0 |-> 700, x1 |-> 120, y1 |-> 710, text |-> <<"P", "a", "g", "e", " ", "2">>, block_no |-> 0, block_type |-> 0]>>, <<"P", "a", "g", "e", " ", "2">>)>>,
     <<Page(<<[x0 |-> 20, y0 |-> 20, x1 |-> 120, y1 |-> 23, text |-> <<"D", "e", "v">>, block_no |-> 0, block_type |-> 0]>>, <<" ", "D", "e", "v", "\n">>)>>,
     <<Page(<<[x0 |-> 20, y0 |-> 20, x1 |-> 120, y1 |-> 32, text |-> <<"-", " ", "3", " ", "-">>, block_no |-> 0, block_type |-> 0]>>, <<"-", " ", "3", " ", "-">>)>>,
     <<Page(<<[x0 |-> 20, y0 |-> 20, x1 |-> 120, y1 |-> 32, text |-> <<" ", "\n", " ">>, block_no |-> 0, block_type |-> 0]>>, <<>>)>>}

Paragraph(text, style) == [text |-> text, style |-> style]

\* The paragraphs and tables of the sample DOCX files.
DocxSamples ==
    {DocxOpens(<<>>, <<>>),
     DocxOpens(<<Paragraph(<<" ", "J", "o", " ", "D", "o", "e", " ">>, "Normal"), Paragraph(<<>>, None)>>, <<>>),
     DocxOpens(<<Paragraph(<<"J", "o", " ", "D", "o", "e">>, "Title"), Paragraph(<<" ", " ">>, None), Paragraph(<<"W", "o", "r", "k">>, "Heading 1")>>, <<>>),
     DocxOpens(<<>>, <<<<<<<<"P", "y", "t", "h", "o", "n">>, <<" ">>>>, <<<<"S", "Q", "L", " ">>>>>>>>),
     DocxOpens(<<>>, <<<<<<<<" ">>>>>>>>),
     DocxOpens(<<Paragraph(<<"J", "o">>, "Normal")>>, <<<<<<<<>>>>, <<<<"a">>, <<"b">>>>>>>>)}

\* The contents of the sample uploads: the number of bytes and what
\* fitz.open and Document make of them.
Contents ==
    {[size |-> 0, fitz |-> FitzRaises("EmptyFileError", "Cannot open empty stream"), docx |-> NotAZip],
     [size |-> 14, fitz |-> NotAPdf, docx |-> NotAZip],
     [size |-> MAX_FILE_SIZE + 1, fitz |-> NotAPdf, docx |-> NotAZip],
     [size |-> 2048, fitz |-> FitzRaises("RuntimeError", "Cannot open encrypted document"), docx |-> NotAZip],
     [size |-> 512, fitz |-> NotAPdf,
      docx |-> DocxRaises("KeyError", "There is no item named '[Content_Types].xml' in the archive")],
     [size |-> 512, fitz |-> NotAPdf, docx |-> DocxRaises("ValueError", "File is not a Word file")]}
    \cup {[size |-> size, fitz |-> FitzOpens(pages), docx |-> NotAZip] :
             size \in {4096, MAX_FILE_SIZE, MAX_FILE_SIZE + 1}, pages \in PdfSamples}
    \cup {[size |-> size, fitz |-> NotAPdf, docx |-> doc] :
             size \in {4096, MAX_FILE_SIZE + 1}, doc \in DocxSamples}

Uploads ==
    [filename : Filenames, readable : BOOLEAN, data : Contents]

NoReply ==
    [op |-> "init", id |-> 0, ret |-> None, resume |-> Nothing,
     listing |-> <<>>, was_cached |-> FALSE, was_on_disk |-> FALSE]

InitLoad ==
    /\ request \in Uploads
    /\ reply = NoReply
    /\ scored = Nothing
    /\ cache = EmptyMap
    /\ disk = EmptyMap
    /\ issued = {}
    /\ now = 1

LoadDocument ==
    /\ reply.op = "init"
    /\ \E joined \in AllowedJoined : reply' = load_document(request, joined)
    /\ UNCHANGED <<request, scored, cache, disk, issued, now>>

SpecLoad == InitLoad /\ [][LoadDocument]_vars

(***************************************************************************)
(* Regular expressions, as far as the parsers use them: a pattern is a     *)
(* sequence of pieces, each a character class repeated min..max times      *)
(* (greedy) or an alternation of words; letters are compared lowered       *)
(* (re.IGNORECASE).  A piece with group TRUE is a capturing group.         *)
(***************************************************************************)
Unbounded == 1000

Letters == {LowerCase[i] : i \in 1..Len(LowerCase)}

\* \w
WordChars == Letters \cup Digits \cup {"_"}

\* The en dash and the em dash of [-–—to].
EnDash == "u2013"
EmDash == "u2014"

Cls(chars, min, max, group) ==
    [kind |-> "class", chars |-> chars, min |-> min, max |-> max, group |-> group]

Alt(words) == [kind |-> "words", words |-> words, group |-> TRUE]

\* text has word (lowered) at position pos.
HasWordAt(text, pos, word) ==
    /\ pos + Len(word) - 1 <= Len(text)
    /\ ToLower(SubSeq(text, pos, pos + Len(word) - 1)) = word

\* The number of characters from position pos on that are in chars.
RECURSIVE ClassRun(_, _, _)
ClassRun(text, pos, chars) ==
    IF pos > Len(text) \/ LowerChar(text[pos]) \notin chars THEN 0
    ELSE 1 + ClassRun(text, pos + 1, chars)

\* The match of the pieces k.. of pattern at position pos that backtracking
\* finds first: Nothing, or the position after each piece.
RECURSIVE MatchFrom(_, _, _, _)
MatchFrom(pattern, text, k, pos) ==
    IF k > Len(pattern) THEN Some(<<>>)
    ELSE IF pattern[k].kind = "class"
    THEN LET most == Min(ClassRun(text, pos, pattern[k].chars), pattern[k].max)
             fits == {n \in pattern[k].min..most :
                         MatchFrom(pattern, text, k + 1, pos + n) # Nothing}
         IN  IF fits = {} THEN Nothing
             ELSE LET n == CHOOSE m \in fits : \A o \in fits : m >= o
                  IN  Some(<<pos + n>> \o MatchFrom(pattern, text, k + 1, pos + n)[1])
    ELSE LET words == pattern[k].words
             fits == {w \in 1..Len(words) :
                         /\ HasWordAt(text, pos, words[w])
                         /\ MatchFrom(pattern, text, k + 1, pos + Len(words[w])) # Nothing}
         IN  IF fits = {} THEN Nothing
             ELSE LET w == CHOOSE m \in fits : \A o \in fits : m <= o
                      next == pos + Len(words[w])
                  IN  Some(<<next>> \o MatchFrom(pattern, text, k + 1, next)[1])

\* re.search(pattern, text) from position from on: Nothing, or the start
\* of the leftmost match and the position after each piece.
Search(pattern, text, from) ==
    LET starts == {s \in from..(Len(text) + 1) : MatchFrom(pattern, text, 1, s) # Nothing}
    IN  IF starts = {} THEN Nothing
        ELSE LET s == CHOOSE m \in starts : \A o \in starts : m <= o
             IN  Some([start |-> s, ends |-> MatchFrom(pattern, text, 1, s)[1]])

\* match.groups()
Groups(pattern, text, found) ==
    LET starts == [k \in 1..Len(pattern) |-> IF k = 1 THEN found.start ELSE found.ends[k - 1]]
        pieces == [k \in 1..Len(pattern) |-> SubSeq(text, starts[k], found.ends[k] - 1)]
    IN  Keep(pieces, {k \in 1..Len(pattern) : pattern[k].group})

\* re.split(pattern, text) for a pattern without groups that matches no
\* empty string.
RECURSIVE ReSplit(_, _, _)
ReSplit(pattern, text, from) ==
    LET found == Search(pattern, text, from)
    IN  IF found = Nothing THEN <<SubSeq(text, from, Len(text))>>
        ELSE <<SubSeq(text, from, found[1].start - 1)>>
               \o ReSplit(pattern, text, found[1].ends[Len(pattern)])

(***************************************************************************)
(* pattern_matchers.DateRangeMatcher                                       *)
(***************************************************************************)
\* MONTH_NAMES, as pairs of name and number
MONTH_NAMES ==
    { <<<<"j", "a", "n">>, 1>>,
      <<<<"j", "a", "n", "u", "a", "r", "y">>, 1>>,
      <<<<"f", "e", "b">>, 2>>,
      <<<<"f", "e", "b", "r", "u", "a", "r", "y">>, 2>>,
      <<<<"m", "a", "r">>, 3>>,
      <<<<"m", "a", "r", "c", "h">>, 3>>,
      <<<<"a", "p", "r">>, 4>>,
      <<<<"a", "p", "r", "i", "l">>, 4>>,
      <<<<"m", "a", "y">>, 5>>,
      <<<<"j", "u", "n">>, 6>>,
      <<<<"j", "u", "n", "e">>, 6>>,
      <<<<"j", "u", "l">>, 7>>,
      <<<<"j", "u", "l", "y">>, 7>>,
      <<<<"a", "u", "g">>, 8>>,
      <<<<"a", "u", "g", "u", "s", "t">>, 8>>,
      <<<<"s", "e", "p">>, 9>>,
      <<<<"s", "e", "p", "t">>, 9>>,
      <<<<"s", "e", "p", "t", "e", "m", "b", "e", "r">>, 9>>,
      <<<<"o", "c", "t">>, 10>>,
      <<<<"o", "c", "t", "o", "b", "e", "r">>, 10>>,
      <<<<"n", "o", "v">>, 11>>,
      <<<<"n", "o", "v", "e", "m", "b", "e", "r">>, 11>>,
      <<<<"d", "e", "c">>, 12>>,
      <<<<"d", "e", "c", "e", "m", "b", "e", "r">>, 12>> }

\* (\w+)
Word == Cls(WordChars, 1, Unbounded, TRUE)

\* (\d{4})
Year == Cls(Digits, 4, 4, TRUE)

\* \s+ and \s*
Spaces == Cls(Whitespace, 1, Unbounded, FALSE)
OptSpaces == Cls(Whitespace, 0, Unbounded, FALSE)

\* [-–—to]+
Dash == Cls({"-", EnDash, EmDash, "t", "o"}, 1, Unbounded, FALSE)

\* (present|current)
PresentOrCurrent == Alt(<<<<"p", "r", "e", "s", "e", "n", "t">>, <<"c", "u", "r", "r", "e", "n", "t">>>>)

PATTERNS ==
    << <<Word, Spaces, Year, OptSpaces, Dash, OptSpaces, PresentOrCurrent>>,
       <<Word, Spaces, Year, OptSpaces, Dash, OptSpaces, Word, Spaces, Year>>,
       <<Year, OptSpaces, Dash, OptSpaces, Year>>,
       <<Year, OptSpaces, Dash, OptSpaces, PresentOrCurrent>>,
       <<Word, Spaces, Year>>,
       <<Year>> >>

\* f"{month_num:02d}"
TwoDigits(n) ==
    LET digit == <<"0", "1", "2", "3", "4", "5", "6", "7", "8", "9">>
    IN  <<digit[(n \div 10) + 1], digit[(n % 10) + 1]>>

_format_date(month_str, year_str) ==
    LET named == {m \in MONTH_NAMES : m[1] = ToLower(month_str)}
    IN  IF named # {}
        THEN year_str \o <<"-">> \o TwoDigits((CHOOSE m \in named : TRUE)[2])
        ELSE year_str

IsPresent(group) == ToLower(group) \in {<<"p", "r", "e", "s", "e", "n", "t">>, <<"c", "u", "r", "r", "e", "n", "t">>}

\* The branch of extract that the groups of a match take; Nothing when no
\* branch returns and the loop goes on.  The second test for two groups
\* is tried like the first one, before it, was not taken.
DateBranch(groups) ==
    IF Len(groups) = 3 /\ IsPresent(groups[3])
    THEN Some(<<Some(_format_date(groups[1], groups[2])), Some(<<"P", "r", "e", "s", "e", "n", "t">>)>>)
    ELSE IF Len(groups) = 4
    THEN Some(<<Some(_format_date(groups[1], groups[2])),
                Some(_format_date(groups[3], groups[4]))>>)
    ELSE IF Len(groups) = 2
    THEN IF IsPresent(groups[2])
         THEN Some(<<Some(groups[1]), Some(<<"P", "r", "e", "s", "e", "n", "t">>)>>)
         ELSE Some(<<Some(groups[1]), Some(groups[2])>>)
    ELSE IF Len(groups) = 1
    THEN Some(<<Some(groups[1]), Nothing>>)
    ELSE Nothing

\* The loop of extract over PATTERNS from pattern i on.
RECURSIVE ExtractFrom(_, _)
ExtractFrom(text, i) ==
    IF i > Len(PATTERNS) THEN Nothing
    ELSE LET found == Search(PATTERNS[i], text, 1)
         IN  IF found # Nothing /\ DateBranch(Groups(PATTERNS[i], text, found[1])) # Nothing
             THEN DateBranch(Groups(PATTERNS[i], text, found[1]))
             ELSE ExtractFrom(text, i + 1)

\* DateRangeMatcher.extract(text): Nothing for None, else the pair of
\* start and end, each Nothing for None.
extract(text) == ExtractFrom(Strip(text), 1)

(***************************************************************************)
(* parsing_service.ParsingService                                          *)
(*   section_headings is the dictionary read from section_headings.json:   *)
(*   the pairs of a section key and its synonyms, in the file's order.     *)
(***************************************************************************)
SectionType == {"summary", "experience", "education", "skills", "projects", "certifications", "achievements", "languages", "references", "other"}

\* re.sub(r'[^\w\s]', '', text)
RemovePunctuation(text) ==
    Keep(text, {i \in 1..Len(text) : LowerChar(text[i]) \in WordChars \cup Whitespace})

\* synonym.replace(' ', '')
WithoutSpaces(text) == Keep(text, {i \in 1..Len(text) : text[i] # " "})

\* Nothing for None, else the section type.
_detect_section_heading(text, section_headings) ==
    LET normalized == RemovePunctuation(Strip(ToLower(text)))
        hits == {k \in 1..Len(section_headings) :
                    \E s \in 1..Len(section_headings[k][2]) :
                        \/ normalized = section_headings[k][2][s]
                        \/ normalized = WithoutSpaces(section_headings[k][2][s])}
    IN  IF hits = {} THEN Nothing
        ELSE LET section_key == section_headings[CHOOSE k \in hits : \A o \in hits : k <= o][1]
             IN  Some(IF section_key \in SectionType THEN section_key ELSE "other")

\* The loop of detect_sections with a heading that empties its section
\* each time it occurs.
RECURSIVE DetectFrom_resetting(_, _, _, _, _)
DetectFrom_resetting(blocks, section_headings, i, sections, current_section) ==
    IF i > Len(blocks) THEN sections
    ELSE LET detected_section == _detect_section_heading(blocks[i], section_headings)
         IN  IF detected_section # Nothing
             THEN DetectFrom_resetting(blocks, section_headings, i + 1,
                                       Put(sections, detected_section[1], <<>>),
                                       detected_section)
             ELSE IF current_section # Nothing
             THEN DetectFrom_resetting(blocks, section_headings, i + 1,
                                       Put(sections, current_section[1],
                                           Append(sections[current_section[1]], blocks[i])),
                                       current_section)
             ELSE DetectFrom_resetting(blocks, section_headings, i + 1, sections,
                                       current_section)

\* The loop of detect_sections from block i on; current_section is
\* Nothing for None.
RECURSIVE DetectFrom(_, _, _, _, _)
DetectFrom(blocks, section_headings, i, sections, current_section) ==
    IF i > Len(blocks) THEN sections
    ELSE LET detected_section == _detect_section_heading(blocks[i], section_headings)
         IN  IF detected_section # Nothing
             THEN DetectFrom(blocks, section_headings, i + 1,
                             IF detected_section[1] \in DOMAIN sections THEN sections
                             ELSE Put(sections, detected_section[1], <<>>),
                             detected_section)
             ELSE IF current_section # Nothing
             THEN DetectFrom(blocks, section_headings, i + 1,
                             Put(sections, current_section[1],
                                 Append(sections[current_section[1]], blocks[i])),
                             current_section)
             ELSE DetectFrom(blocks, section_headings, i + 1, sections, current_section)

\* detect_sections that starts in the section "other".
detect_sections_from_other(document, section_headings) ==
    DetectFrom(document.blocks, section_headings, 1, Put(EmptyMap, "other", <<>>), Some("other"))

\* detect_sections: the sections of the ResumeRawSections it returns.
detect_sections(document, section_headings) ==
    DetectFrom(document.blocks, section_headings, 1, EmptyMap, Nothing)

\* \n\s*\n
BlankLine ==
    <<Cls({"\n"}, 1, 1, FALSE), Cls(Whitespace, 0, Unbounded, FALSE), Cls({"\n"}, 1, 1, FALSE)>>

MonthAbbreviations == <<<<"j", "a", "n">>, <<"f", "e", "b">>, <<"m", "a", "r">>, <<"a", "p", "r">>, <<"m", "a", "y">>, <<"j", "u", "n">>, <<"j", "u", "l">>, <<"a", "u", "g">>, <<"s", "e", "p">>, <<"o", "c", "t">>, <<"n", "o", "v">>, <<"d", "e", "c">>>>

\* re.match(r'^\d{4}|^(Jan|Feb|...|Dec)', block, re.IGNORECASE)
StartsWithDate(block) ==
    \/ MatchFrom(<<Cls(Digits, 4, 4, FALSE)>>, block, 1, 1) # Nothing
    \/ MatchFrom(<<Alt(MonthAbbreviations)>>, block, 1, 1) # Nothing

\* merged with current appended when current is not empty
Flush(merged, current) ==
    IF current # <<>> THEN Append(merged, Join(current, <<"\n", "\n">>)) ELSE merged

\* The loop of _split_experience_blocks from block i on.
RECURSIVE MergeFrom(_, _, _, _)
MergeFrom(blocks, i, merged, current) ==
    IF i > Len(blocks) THEN Flush(merged, current)
    ELSE LET block == Strip(blocks[i])
         IN  IF block = <<>> THEN MergeFrom(blocks, i + 1, merged, current)
             ELSE IF StartsWithDate(block)
             THEN MergeFrom(blocks, i + 1, Flush(merged, current), <<block>>)
             ELSE MergeFrom(blocks, i + 1, merged, Append(current, block))

\* _split_experience_blocks that merges nothing.
_split_experience_blocks_unmerged(text) ==
    LET blocks == ReSplit(BlankLine, text, 1)
    IN  Keep([i \in 1..Len(blocks) |-> Strip(blocks[i])],
             {i \in 1..Len(blocks) : Strip(blocks[i]) # <<>>})

_split_experience_blocks(text) ==
    MergeFrom(ReSplit(BlankLine, text, 1), 1, <<>>, <<>>)

(***************************************************************************)
(* Calls of the parsers                                                    *)
(***************************************************************************)
MaxBlocks == 4

\* The sequences of at most n elements of S.
SeqsUpTo(S, n) == UNION {[1..k -> S] : k \in 0..n}

section_headings ==
    << <<"experience", <<<<"e", "x", "p", "e", "r", "i", "e", "n", "c", "e">>, <<"w", "o", "r", "k", " ", "e", "x", "p", "e", "r", "i", "e", "n", "c", "e">>>>>>,
       <<"education", <<<<"e", "d", "u", "c", "a", "t", "i", "o", "n">>, <<"a", "c", "a", "d", "e", "m", "i", "c", " ", "b", "a", "c", "k", "g", "r", "o", "u", "n", "d">>>>>>,
       <<"hobbies", <<<<"h", "o", "b", "b", "i", "e", "s">>>>>> >>

DocumentBlocks ==
    {<<"J", "o", " ", "D", "o", "e">>, <<"E", "X", "P", "E", "R", "I", "E", "N", "C", "E">>, <<" ", "W", "o", "r", "k", "-", "E", "x", "p", "e", "r", "i", "e", "n", "c", "e", " ">>, <<"E", "d", "u", "c", "a", "t", "i", "o", "n", ":">>, <<"H", "o", "b", "b", "i", "e", "s">>, <<"D", "e", "v", " ", "a", "t", " ", "A", "c", "m", "e">>}

ExperienceBlocks ==
    {<<"2", "0", "2", "0", " ", "D", "e", "v", "\n", "A", "c", "m", "e">>, <<"B", "u", "i", "l", "t", " ", "A", "P", "I", "s">>, <<"j", "a", "n", " ", "2", "0", "1", "9", " ", "Q", "A">>, <<"M", "a", "r", "k", "e", "t", "i", "n", "g", " ", "l", "e", "a", "d", " ">>, <<" ">>}

BlockSeparators == {<<"\n", "\n">>, <<"\n", " ", "\n", "\n">>}

DateTexts ==
    {<<"J", "a", "n", " ", "2", "0", "2", "0", " ", "-", " ", "P", "r", "e", "s", "e", "n", "t">>,
     <<"J", "a", "n", " ", "2", "0", "2", "0", " ", "-", " ", "D", "e", "c", " ", "2", "0", "2", "2">>,
     <<"2", "0", "2", "0", " ", "-", " ", "2", "0", "2", "2">>,
     <<"2", "0", "2", "0", " ", "-", " ", "C", "u", "r", "r", "e", "n", "t">>,
     <<"J", "a", "n", " ", "2", "0", "2", "0">>,
     <<"2", "0", "2", "0">>,
     <<" ", " ", "J", "u", "n", "e", " ", "2", "0", "1", "9", " ", "t", "o", " ", "c", "u", "r", "r", "e", "n", "t", " ">>,
     <<"n", "o", " ", "d", "a", "t", "e">>,
     <<"F", "o", "o", " ", "2", "0", "2", "0">>,
     <<"S", "i", "n", "c", "e", " ", "2", "0", "2", "0", " ", "-", " ", "p", "r", "e", "s", "e", "n", "t">>,
     <<"Q", "3", " ", "2", "0", "2", "0", " ", "-", " ", "2", "0", "2", "1">>,
     <<"2", "0", "2", "0", "-", "2", "0", "2", "2">>,
     <<"s", "e", "p", "t", " ", "2", "0", "1", "9", " ", "-", " ", "o", "c", "t", "o", "b", "e", "r", " ", "2", "0", "2", "0">>,
     <<"1", "2", "0", "2", "0", " ", "-", " ", "2", "0", "2", "1">>,
     <<"2", "0", "2", "0", " ", "-", " ", "p", "r", "e", "s", "e", "n", "t", "l", "y">>,
     <<>>}

ParseRequests ==
    {[fn |-> "detect_sections", document |-> [blocks |-> blocks]] :
        blocks \in SeqsUpTo(DocumentBlocks, MaxBlocks)}
    \cup {[fn |-> "_split_experience_blocks", text |-> Join(blocks, sep)] :
             blocks \in SeqsUpTo(ExperienceBlocks, MaxBlocks), sep \in BlockSeparators}
    \cup {[fn |-> "extract", text |-> text] : text \in DateTexts}

InitParse ==
    /\ request \in ParseRequests
    /\ reply = NoReply
    /\ scored = Nothing
    /\ cache = EmptyMap
    /\ disk = EmptyMap
    /\ issued = {}
    /\ now = 1

DetectSections ==
    /\ reply.op = "init"
    /\ request.fn = "detect_sections"
    /\ reply' = [op |-> "detect_sections",
                 result |-> detect_sections(request.document, section_headings)]
    /\ UNCHANGED <<request, scored, cache, disk, issued, now>>

SplitExperienceBlocks ==
    /\ reply.op = "init"
    /\ request.fn = "_split_experience_blocks"
    /\ reply' = [op |-> "_split_experience_blocks",
                 result |-> _split_experience_blocks(request.text)]
    /\ UNCHANGED <<request, scored, cache, disk, issued, now>>

ExtractDateRange ==
    /\ reply.op = "init"
    /\ request.fn = "extract"
    /\ reply' = [op |-> "extract", result |-> extract(request.text)]
    /\ UNCHANGED <<request, scored, cache, disk, issued, now>>

NextParse ==
    \/ DetectSections
    \/ SplitExperienceBlocks
    \/ ExtractDateRange

SpecParse == InitParse /\ [][NextParse]_vars

(***************************************************************************)
(* AutoFixService.generate_fixes.                                          *)
(* The feedback strings are searched for their cues character by           *)
(* character: Characters gives the characters of every flag and comment of *)
(* score_resume and of the feedback of test_multiple_fixes_generated.      *)
(* A recommendation is the AutoFix record with its section and its         *)
(* description.  resume.raw_text.long_sentences is the number of pieces    *)
(* of re.split(r'[.!?]+', raw_text) with more than 25 words.               *)
(***************************************************************************)
\* The flags and comments of score_resume and the feedback of the tests.
FeedbackTexts ==
    {"ATS cannot parse images - use text-based PDF", "Missing contact email",
     "Missing phone number", "Tables may not parse correctly in ATS",
     "Images/photos may increase bias risk",
     "Resume is longer than recommended (2 pages max)",
     "No achievements quantified - add metrics and numbers",
     "Missing professional summary", "Limited skills listed - consider adding more",
     "Personal info increases bias risk (date of birth)",
     "Personal info increases bias risk (gender)",
     "Personal info increases bias risk (nationality/religion)",
     "Add more Engineering-specific technical skills to match industry standards",
     "Add more It/Software-specific technical skills to match industry standards",
     "Add more Finance-specific technical skills to match industry standards",
     "Add more Healthcare-specific technical skills to match industry standards",
     "Consider adding Engineering-relevant certifications to boost credibility",
     "Consider adding It/Software-relevant certifications to boost credibility",
     "Consider adding Finance-relevant certifications to boost credibility",
     "Consider adding Healthcare-relevant certifications to boost credibility",
     "Add a professional email address for recruiter contact",
     "Include work experience to strengthen your resume",
     "Add a skills section with relevant keywords",
     "Improve readability by shortening long sentences",
     "Use simpler language where possible",
     "Resume is too short - add more detail to experience",
     "Consider condensing resume to 1-2 pages",
     "Add metrics to show real impact (e.g., 'Increased efficiency by 20%')",
     "Add 3-5 bullet points per role describing key achievements",
     "Add a skills section with more relevant keywords",
     "Include both technical and soft skills",
     "Add a professional summary at the top of your resume",
     "Consider adding relevant certifications to stand out",
     "Ensure consistent bullet formatting - start each with a strong action verb",
     "Resume is longer than recommended", "Missing contact information",
     "Add quantifiable achievements", "Use strong action verbs"}

Characters(text) ==
    CASE text = "ATS cannot parse images - use text-based PDF" ->
         <<"A", "T", "S", " ", "c", "a", "n", "n", "o", "t", " ", "p", "a", "r", "s", "e", " ", "i", "m", "a", "g", "e", "s", " ", "-", " ", "u", "s", "e", " ", "t", "e", "x", "t", "-", "b", "a", "s", "e", "d", " ", "P", "D", "F">>
      [] text = "Missing contact email" ->
         <<"M", "i", "s", "s", "i", "n", "g", " ", "c", "o", "n", "t", "a", "c", "t", " ", "e", "m", "a", "i", "l">>
      [] text = "Missing phone number" ->
         <<"M", "i", "s", "s", "i", "n", "g", " ", "p", "h", "o", "n", "e", " ", "n", "u", "m", "b", "e", "r">>
      [] text = "Tables may not parse correctly in ATS" ->
         <<"T", "a", "b", "l", "e", "s", " ", "m", "a", "y", " ", "n", "o", "t", " ", "p", "a", "r", "s", "e", " ", "c", "o", "r", "r", "e", "c", "t", "l", "y", " ", "i", "n", " ", "A", "T", "S">>
      [] text = "Images/photos may increase bias risk" ->
         <<"I", "m", "a", "g", "e", "s", "/", "p", "h", "o", "t", "o", "s", " ", "m", "a", "y", " ", "i", "n", "c", "r", "e", "a", "s", "e", " ", "b", "i", "a", "s", " ", "r", "i", "s", "k">>
      [] text = "Resume is longer than recommended (2 pages max)" ->
         <<"R", "e", "s", "u", "m", "e", " ", "i", "s", " ", "l", "o", "n", "g", "e", "r", " ", "t", "h", "a", "n", " ", "r", "e", "c", "o", "m", "m", "e", "n", "d", "e", "d", " ", "(", "2", " ", "p", "a", "g", "e", "s", " ", "m", "a", "x", ")">>
      [] text = "No achievements quantified - add metrics and numbers" ->
         <<"N", "o", " ", "a", "c", "h", "i", "e", "v", "e", "m", "e", "n", "t", "s", " ", "q", "u", "a", "n", "t", "i", "f", "i", "e", "d", " ", "-", " ", "a", "d", "d", " ", "m", "e", "t", "r", "i", "c", "s", " ", "a", "n", "d", " ", "n", "u", "m", "b", "e", "r", "s">>
      [] text = "Missing professional summary" ->
         <<"M", "i", "s", "s", "i", "n", "g", " ", "p", "r", "o", "f", "e", "s", "s", "i", "o", "n", "a", "l", " ", "s", "u", "m", "m", "a", "r", "y">>
      [] text = "Limited skills listed - consider adding more" ->
         <<"L", "i", "m", "i", "t", "e", "d", " ", "s", "k", "i", "l", "l", "s", " ", "l", "i", "s", "t", "e", "d", " ", "-", " ", "c", "o", "n", "s", "i", "d", "e", "r", " ", "a", "d", "d", "i", "n", "g", " ", "m", "o", "r", "e">>
      [] text = "Personal info increases bias risk (date of birth)" ->
         <<"P", "e", "r", "s", "o", "n", "a", "l", " ", "i", "n", "f", "o", " ", "i", "n", "c", "r", "e", "a", "s", "e", "s", " ", "b", "i", "a", "s", " ", "r", "i", "s", "k", " ", "(", "d", "a", "t", "e", " ", "o", "f", " ", "b", "i", "r", "t", "h", ")">>
      [] text = "Personal info increases bias risk (gender)" ->
         <<"P", "e", "r", "s", "o", "n", "a", "l", " ", "i", "n", "f", "o", " ", "i", "n", "c", "r", "e", "a", "s", "e", "s", " ", "b", "i", "a", "s", " ", "r", "i", "s", "k", " ", "(", "g", "e", "n", "d", "e", "r", ")">>
      [] text = "Personal info increases bias risk (nationality/religion)" ->
         <<"P", "e", "r", "s", "o", "n", "a", "l", " ", "i", "n", "f", "o", " ", "i", "n", "c", "r", "e", "a", "s", "e", "s", " ", "b", "i", "a", "s", " ", "r", "i", "s", "k", " ", "(", "n", "a", "t", "i", "o", "n", "a", "l", "i", "t", "y", "/", "r", "e", "l", "i", "g", "i", "o", "n", ")">>
      [] text = "Add more Engineering-specific technical skills to match industry standards" ->
         <<"A", "d", "d", " ", "m", "o", "r", "e", " ", "E", "n", "g", "i", "n", "e", "e", "r", "i", "n", "g", "-", "s", "p", "e", "c", "i", "f", "i", "c", " ", "t", "e", "c", "h", "n", "i", "c", "a", "l", " ", "s", "k", "i", "l", "l", "s", " ", "t", "o", " ", "m", "a", "t", "c", "h", " ", "i", "n", "d", "u", "s", "t", "r", "y", " ", "s", "t", "a", "n", "d", "a", "r", "d", "s">>
      [] text = "Add more It/Software-specific technical skills to match industry standards" ->
         <<"A", "d", "d", " ", "m", "o", "r", "e", " ", "I", "t", "/", "S", "o", "f", "t", "w", "a", "r", "e", "-", "s", "p", "e", "c", "i", "f", "i", "c", " ", "t", "e", "c", "h", "n", "i", "c", "a", "l", " ", "s", "k", "i", "l", "l", "s", " ", "t", "o", " ", "m", "a", "t", "c", "h", " ", "i", "n", "d", "u", "s", "t", "r", "y", " ", "s", "t", "a", "n", "d", "a", "r", "d", "s">>
      [] text = "Add more Finance-specific technical skills to match industry standards" ->
         <<"A", "d", "d", " ", "m", "o", "r", "e", " ", "F", "i", "n", "a", "n", "c", "e", "-", "s", "p", "e", "c", "i", "f", "i", "c", " ", "t", "e", "c", "h", "n", "i", "c", "a", "l", " ", "s", "k", "i", "l", "l", "s", " ", "t", "o", " ", "m", "a", "t", "c", "h", " ", "i", "n", "d", "u", "s", "t", "r", "y", " ", "s", "t", "a", "n", "d", "a", "r", "d", "s">>
      [] text = "Add more Healthcare-specific technical skills to match industry standards" ->
         <<"A", "d", "d", " ", "m", "o", "r", "e", " ", "H", "e", "a", "l", "t", "h", "c", "a", "r", "e", "-", "s", "p", "e", "c", "i", "f", "i", "c", " ", "t", "e", "c", "h", "n", "i", "c", "a", "l", " ", "s", "k", "i", "l", "l", "s", " ", "t", "o", " ", "m", "a", "t", "c", "h", " ", "i", "n", "d", "u", "s", "t", "r", "y", " ", "s", "t", "a", "n", "d", "a", "r", "d", "s">>
      [] text = "Consider adding Engineering-relevant certifications to boost credibility" ->
         <<"C", "o", "n", "s", "i", "d", "e", "r", " ", "a", "d", "d", "i", "n", "g", " ", "E", "n", "g", "i", "n", "e", "e", "r", "i", "n", "g", "-", "r", "e", "l", "e", "v", "a", "n", "t", " ", "c", "e", "r", "t", "i", "f", "i", "c", "a", "t", "i", "o", "n", "s", " ", "t", "o", " ", "b", "o", "o", "s", "t", " ", "c", "r", "e", "d", "i", "b", "i", "l", "i", "t", "y">>
      [] text = "Consider adding It/Software-relevant certifications to boost credibility" ->
         <<"C", "o", "n", "s", "i", "d", "e", "r", " ", "a", "d", "d", "i", "n", "g", " ", "I", "t", "/", "S", "o", "f", "t", "w", "a", "r", "e", "-", "r", "e", "l", "e", "v", "a", "n", "t", " ", "c", "e", "r", "t", "i", "f", "i", "c", "a", "t", "i", "o", "n", "s", " ", "t", "o", " ", "b", "o", "o", "s", "t", " ", "c", "r", "e", "d", "i", "b", "i", "l", "i", "t", "y">>
      [] text = "Consider adding Finance-relevant certifications to boost credibility" ->
         <<"C", "o", "n", "s", "i", "d", "e", "r", " ", "a", "d", "d", "i", "n", "g", " ", "F", "i", "n", "a", "n", "c", "e", "-", "r", "e", "l", "e", "v", "a", "n", "t", " ", "c", "e", "r", "t", "i", "f", "i", "c", "a", "t", "i", "o", "n", "s", " ", "t", "o", " ", "b", "o", "o", "s", "t", " ", "c", "r", "e", "d", "i", "b", "i", "l", "i", "t", "y">>
      [] text = "Consider adding Healthcare-relevant certifications to boost credibility" ->
         <<"C", "o", "n", "s", "i", "d", "e", "r", " ", "a", "d", "d", "i", "n", "g", " ", "H", "e", "a", "l", "t", "h", "c", "a", "r", "e", "-", "r", "e", "l", "e", "v", "a", "n", "t", " ", "c", "e", "r", "t", "i", "f", "i", "c", "a", "t", "i", "o", "n", "s", " ", "t", "o", " ", "b", "o", "o", "s", "t", " ", "c", "r", "e", "d", "i", "b", "i", "l", "i", "t", "y">>
      [] text = "Add a professional email address for recruiter contact" ->
         <<"A", "d", "d", " ", "a", " ", "p", "r", "o", "f", "e", "s", "s", "i", "o", "n", "a", "l", " ", "e", "m", "a", "i", "l", " ", "a", "d", "d", "r", "e", "s", "s", " ", "f", "o", "r", " ", "r", "e", "c", "r", "u", "i", "t", "e", "r", " ", "c", "o", "n", "t", "a", "c", "t">>
      [] text = "Include work experience to strengthen your resume" ->
         <<"I", "n", "c", "l", "u", "d", "e", " ", "w", "o", "r", "k", " ", "e", "x", "p", "e", "r", "i", "e", "n", "c", "e", " ", "t", "o", " ", "s", "t", "r", "e", "n", "g", "t", "h", "e", "n", " ", "y", "o", "u", "r", " ", "r", "e", "s", "u", "m", "e">>
      [] text = "Add a skills section with relevant keywords" ->
         <<"A", "d", "d", " ", "a", " ", "s", "k", "i", "l", "l", "s", " ", "s", "e", "c", "t", "i", "o", "n", " ", "w", "i", "t", "h", " ", "r", "e", "l", "e", "v", "a", "n", "t", " ", "k", "e", "y", "w", "o", "r", "d", "s">>
      [] text = "Improve readability by shortening long sentences" ->
         <<"I", "m", "p", "r", "o", "v", "e", " ", "r", "e", "a", "d", "a", "b", "i", "l", "i", "t", "y", " ", "b", "y", " ", "s", "h", "o", "r", "t", "e", "n", "i", "n", "g", " ", "l", "o", "n", "g", " ", "s", "e", "n", "t", "e", "n", "c", "e", "s">>
      [] text = "Use simpler language where possible" ->
         <<"U", "s", "e", " ", "s", "i", "m", "p", "l", "e", "r", " ", "l", "a", "n", "g", "u", "a", "g", "e", " ", "w", "h", "e", "r", "e", " ", "p", "o", "s", "s", "i", "b", "l", "e">>
      [] text = "Resume is too short - add more detail to experience" ->
         <<"R", "e", "s", "u", "m", "e", " ", "i", "s", " ", "t", "o", "o", " ", "s", "h", "o", "r", "t", " ", "-", " ", "a", "d", "d", " ", "m", "o", "r", "e", " ", "d", "e", "t", "a", "i", "l", " ", "t", "o", " ", "e", "x", "p", "e", "r", "i", "e", "n", "c", "e">>
      [] text = "Consider condensing resume to 1-2 pages" ->
         <<"C", "o", "n", "s", "i", "d", "e", "r", " ", "c", "o", "n", "d", "e", "n", "s", "i", "n", "g", " ", "r", "e", "s", "u", "m", "e", " ", "t", "o", " ", "1", "-", "2", " ", "p", "a", "g", "e", "s">>
      [] text = "Add metrics to show real impact (e.g., 'Increased efficiency by 20%')" ->
         <<"A", "d", "d", " ", "m", "e", "t", "r", "i", "c", "s", " ", "t", "o", " ", "s", "h", "o", "w", " ", "r", "e", "a", "l", " ", "i", "m", "p", "a", "c", "t", " ", "(", "e", ".", "g", ".", ",", " ", "'", "I", "n", "c", "r", "e", "a", "s", "e", "d", " ", "e", "f", "f", "i", "c", "i", "e", "n", "c", "y", " ", "b", "y", " ", "2", "0", "%", "'", ")">>
      [] text = "Add 3-5 bullet points per role describing key achievements" ->
         <<"A", "d", "d", " ", "3", "-", "5", " ", "b", "u", "l", "l", "e", "t", " ", "p", "o", "i", "n", "t", "s", " ", "p", "e", "r", " ", "r", "o", "l", "e", " ", "d", "e", "s", "c", "r", "i", "b", "i", "n", "g", " ", "k", "e", "y", " ", "a", "c", "h", "i", "e", "v", "e", "m", "e", "n", "t", "s">>
      [] text = "Add a skills section with more relevant keywords" ->
         <<"A", "d", "d", " ", "a", " ", "s", "k", "i", "l", "l", "s", " ", "s", "e", "c", "t", "i", "o", "n", " ", "w", "i", "t", "h", " ", "m", "o", "r", "e", " ", "r", "e", "l", "e", "v", "a", "n", "t", " ", "k", "e", "y", "w", "o", "r", "d", "s">>
      [] text = "Include both technical and soft skills" ->
         <<"I", "n", "c", "l", "u", "d", "e", " ", "b", "o", "t", "h", " ", "t", "e", "c", "h", "n", "i", "c", "a", "l", " ", "a", "n", "d", " ", "s", "o", "f", "t", " ", "s", "k", "i", "l", "l", "s">>
      [] text = "Add a professional summary at the top of your resume" ->
         <<"A", "d", "d", " ", "a", " ", "p", "r", "o", "f", "e", "s", "s", "i", "o", "n", "a", "l", " ", "s", "u", "m", "m", "a", "r", "y", " ", "a", "t", " ", "t", "h", "e", " ", "t", "o", "p", " ", "o", "f", " ", "y", "o", "u", "r", " ", "r", "e", "s", "u", "m", "e">>
      [] text = "Consider adding relevant certifications to stand out" ->
         <<"C", "o", "n", "s", "i", "d", "e", "r", " ", "a", "d", "d", "i", "n", "g", " ", "r", "e", "l", "e", "v", "a", "n", "t", " ", "c", "e", "r", "t", "i", "f", "i", "c", "a", "t", "i", "o", "n", "s", " ", "t", "o", " ", "s", "t", "a", "n", "d", " ", "o", "u", "t">>
      [] text = "Ensure consistent bullet formatting - start each with a strong action verb" ->
         <<"E", "n", "s", "u", "r", "e", " ", "c", "o", "n", "s", "i", "s", "t", "e", "n", "t", " ", "b", "u", "l", "l", "e", "t", " ", "f", "o", "r", "m", "a", "t", "t", "i", "n", "g", " ", "-", " ", "s", "t", "a", "r", "t", " ", "e", "a", "c", "h", " ", "w", "i", "t", "h", " ", "a", " ", "s", "t", "r", "o", "n", "g", " ", "a", "c", "t", "i", "o", "n", " ", "v", "e", "r", "b">>
      [] text = "Resume is longer than recommended" ->
         <<"R", "e", "s", "u", "m", "e", " ", "i", "s", " ", "l", "o", "n", "g", "e", "r", " ", "t", "h", "a", "n", " ", "r", "e", "c", "o", "m", "m", "e", "n", "d", "e", "d">>
      [] text = "Missing contact information" ->
         <<"M", "i", "s", "s", "i", "n", "g", " ", "c", "o", "n", "t", "a", "c", "t", " ", "i", "n", "f", "o", "r", "m", "a", "t", "i", "o", "n">>
      [] text = "Add quantifiable achievements" ->
         <<"A", "d", "d", " ", "q", "u", "a", "n", "t", "i", "f", "i", "a", "b", "l", "e", " ", "a", "c", "h", "i", "e", "v", "e", "m", "e", "n", "t", "s">>
      [] text = "Use strong action verbs" ->
         <<"U", "s", "e", " ", "s", "t", "r", "o", "n", "g", " ", "a", "c", "t", "i", "o", "n", " ", "v", "e", "r", "b", "s">>

\* cue in feedback_lower
In(cue, feedback_lower) ==
    \E i \in 1..(Len(feedback_lower) - Len(cue) + 1) :
        SubSeq(feedback_lower, i, i + Len(cue) - 1) = cue

TooLong == <<"t", "o", "o", " ", "l", "o", "n", "g">>
TwoPages == <<"2", " ", "p", "a", "g", "e", "s">>
SummaryCue == <<"s", "u", "m", "m", "a", "r", "y">>
MissingCue == <<"m", "i", "s", "s", "i", "n", "g">>
ReadabilityCue == <<"r", "e", "a", "d", "a", "b", "i", "l", "i", "t", "y">>
LongSentences == <<"l", "o", "n", "g", " ", "s", "e", "n", "t", "e", "n", "c", "e", "s">>
ContactCue == <<"c", "o", "n", "t", "a", "c", "t">>
EmailCue == <<"e", "m", "a", "i", "l">>
PhoneCue == <<"p", "h", "o", "n", "e">>
QuantifCue == <<"q", "u", "a", "n", "t", "i", "f">>
MetricCue == <<"m", "e", "t", "r", "i", "c">>
NumberCue == <<"n", "u", "m", "b", "e", "r">>
BulletCue == <<"b", "u", "l", "l", "e", "t">>
ActionVerb == <<"a", "c", "t", "i", "o", "n", " ", "v", "e", "r", "b">>

Recommendation(fix_type, action, section, description, suggested_value, auto_applicable) ==
    [fix_type |-> fix_type, action |-> action, section |-> section,
     description |-> description, suggested_value |-> suggested_value,
     auto_applicable |-> auto_applicable]

\* 'X' object has no attribute 'get': resume.contact and the items of
\* resume.experience are pydantic models, not dictionaries.
NoAttributeGet == Raise("AttributeError", "object has no attribute 'get'")

_fix_length(resume) ==
    LET word_count == resume.raw_text.split
    IN  IF word_count > 1000
        THEN Return(<<Recommendation("length", "modify", "overall",
                        "Resume exceeds 2 pages. Condense experience descriptions.",
                        "~500-800 words (1-2 pages)", FALSE)>>)
        ELSE Return(<<>>)

\* resume.experience[0].get("position", "Professional") when there is
\* experience.
_fix_summary(resume) ==
    IF Len(resume.experience) > 0
    THEN NoAttributeGet
    ELSE Return(<<Recommendation("summary", "add", "summary",
                    "Add a professional summary to introduce your qualifications",
                    TemplateSummary, TRUE)>>)

\* One recommendation per long sentence, fixes[:3].  The description of
\* the source names the index and the word count of the sentence.
_fix_readability(resume) ==
    LET descriptions == <<"Shorten sentence (first long sentence)",
                          "Shorten sentence (second long sentence)",
                          "Shorten sentence (third long sentence)">>
    IN  Return([i \in 1..Min(3, resume.raw_text.long_sentences) |->
                  Recommendation("readability", "modify", "content", descriptions[i],
                                 "Break into 2-3 shorter sentences", FALSE)])

\* contact = resume.contact or {}: a ContactInfo is never falsy, and
\* contact.get("email") is the first thing done with it.
_fix_contact(resume) == NoAttributeGet

\* exp.get("description", []) for the first experience entry.
_fix_quantification(resume) ==
    IF Len(resume.experience) > 0 THEN NoAttributeGet ELSE Return(<<>>)

\* exp.get("description", []) for the first experience entry.
_fix_bullets(resume) ==
    IF Len(resume.experience) > 0 THEN NoAttributeGet ELSE Return(<<>>)

\* What the generator of one fix type does with the resume.
Generated(handler, resume) ==
    CASE handler = "length" -> _fix_length(resume)
      [] handler = "summary" -> _fix_summary(resume)
      [] handler = "readability" -> _fix_readability(resume)
      [] handler = "contact" -> _fix_contact(resume)
      [] handler = "quantification" -> _fix_quantification(resume)
      [] handler = "bullets" -> _fix_bullets(resume)

\* Mutant of Dispatch: the quantification cues are tried before the
\* contact cues.
Dispatch_quantification_first(feedback_lower) ==
    IF In(TooLong, feedback_lower) \/ In(TwoPages, feedback_lower)
    THEN "length"
    ELSE IF In(SummaryCue, feedback_lower) /\ In(MissingCue, feedback_lower)
    THEN "summary"
    ELSE IF In(ReadabilityCue, feedback_lower) \/ In(LongSentences, feedback_lower)
    THEN "readability"
    ELSE IF In(QuantifCue, feedback_lower) \/ In(MetricCue, feedback_lower)
            \/ In(NumberCue, feedback_lower)
    THEN "quantification"
    ELSE IF In(ContactCue, feedback_lower) \/ In(EmailCue, feedback_lower)
            \/ In(PhoneCue, feedback_lower)
    THEN "contact"
    ELSE IF In(BulletCue, feedback_lower) \/ In(ActionVerb, feedback_lower)
    THEN "bullets"
    ELSE None

\* The if/elif chain of generate_fixes: the fix type whose generator is
\* called for one feedback, None when no branch is taken.
Dispatch(feedback_lower) ==
    IF In(TooLong, feedback_lower) \/ In(TwoPages, feedback_lower)
    THEN "length"
    ELSE IF In(SummaryCue, feedback_lower) /\ In(MissingCue, feedback_lower)
    THEN "summary"
    ELSE IF In(ReadabilityCue, feedback_lower) \/ In(LongSentences, feedback_lower)
    THEN "readability"
    ELSE IF In(ContactCue, feedback_lower) \/ In(EmailCue, feedback_lower)
            \/ In(PhoneCue, feedback_lower)
    THEN "contact"
    ELSE IF In(QuantifCue, feedback_lower) \/ In(MetricCue, feedback_lower)
            \/ In(NumberCue, feedback_lower)
    THEN "quantification"
    ELSE IF In(BulletCue, feedback_lower) \/ In(ActionVerb, feedback_lower)
    THEN "bullets"
    ELSE None

\* Dispatch of feedback.lower() for every feedback text.
Dispatched == [text \in FeedbackTexts |-> Dispatch(ToLower(Characters(text)))]

\* The loop of generate_fixes from feedback i on.  calls lists the
\* generators called so far, each with the index of its feedback; the result
\* is the exception of a generator or the returned fixes, with the calls.
RECURSIVE GenerateFrom(_, _, _, _, _)
GenerateFrom(resume, all_feedback, i, calls, fixes) ==
    IF i > Len(all_feedback)
    THEN Return(fixes) @@ [calls |-> calls]
    ELSE LET handler == Dispatched[all_feedback[i]]
         IN  IF handler = None
             THEN GenerateFrom(resume, all_feedback, i + 1, calls, fixes)
             ELSE IF Generated(handler, resume).raised
             THEN Generated(handler, resume)
                  @@ [calls |-> Append(calls, [feedback |-> i, handler |-> handler])]
             ELSE GenerateFrom(resume, all_feedback, i + 1,
                               Append(calls, [feedback |-> i, handler |-> handler]),
                               fixes \o Generated(handler, resume).value)

generate_fixes(resume, flags, comments, score) ==
    GenerateFrom(resume, flags \o comments, 1, <<>>, <<>>)

\* The numbers of long sentences a text of word_count words can have.
LongSentenceCounts(word_count) == {n \in {0, 1, 2, 4} : 26 * n <= word_count}

WithLongSentences(resume, n) ==
    [resume EXCEPT !.raw_text = @ @@ [long_sentences |-> n]]

\* flags and comments of test_multiple_fixes_generated, and comments
\* without any cue.
FeedbackSamples ==
    {[flags |-> <<"Resume is longer than recommended", "Missing contact information">>,
      comments |-> <<"Missing professional summary", "Add quantifiable achievements",
                     "Use strong action verbs">>],
     [flags |-> <<"Resume is longer than recommended (2 pages max)">>,
      comments |-> <<"Improve readability by shortening long sentences",
                     "Include both technical and soft skills",
                     "Add quantifiable achievements", "Use strong action verbs">>],
     [flags |-> <<>>,
      comments |-> <<"Use simpler language where possible",
                     "Add a professional summary at the top of your resume">>]}

GenerateReply(resume, flags, comments, generated) ==
    [op |-> "generate_fixes", resume |-> resume, flags |-> flags,
     comments |-> comments, generated |-> generated]

\* generate_fixes as the analyze route calls it: with the resume that was
\* scored and the flags, comments and overall score of its ResumeScore.
GenerateFixesForScore ==
    /\ scored # Nothing
    /\ reply.op = "init"
    /\ \E n \in LongSentenceCounts(request.resume.raw_text.split) :
          LET resume == WithLongSentences(request.resume, n)
          IN  reply' = GenerateReply(resume, scored[1].flags, scored[1].comments,
                           generate_fixes(resume, scored[1].flags, scored[1].comments,
                                          scored[1].overall))
    /\ UNCHANGED <<request, scored, cache, disk, issued, now>>

\* generate_fixes called with feedback of the caller's own.
GenerateFixes ==
    /\ scored = Nothing
    /\ reply.op = "init"
    /\ \E feedback \in FeedbackSamples,
          n \in LongSentenceCounts(request.resume.raw_text.split) :
          LET resume == WithLongSentences(request.resume, n)
          IN  reply' = GenerateReply(resume, feedback.flags, feedback.comments,
                           generate_fixes(resume, feedback.flags, feedback.comments, 55))
    /\ UNCHANGED <<request, scored, cache, disk, issued, now>>

\* The calls of generate_fixes: resumes with every contact, summary and
\* text, without experience or with it.
GenerateRequests ==
    [resume : {x \in StructureSweep : x.education = <<>>}, mode : ScanMode,
     job_description : {jd \in JobDescriptions : jd.kind = "none"},
     industry : {None, "it-software"}]

InitGenerate ==
    /\ InitBuilder
    /\ request \in GenerateRequests
    /\ scored = Nothing

NextGenerate ==
    \/ ScoreResume
    \/ GenerateFixesForScore
    \/ GenerateFixes

SpecGenerate == InitGenerate /\ [][NextGenerate]_vars

(***************************************************************************)
(* Two clients of the builder routes.  Every route is an "async def" whose *)
(* body, the service methods included, holds no await: the event loop runs *)
(* a call to its end before it starts another, so the calls of two clients *)
(* interleave call by call, in any order that keeps each client's own      *)
(* order.                                                                  *)
(*   request : for each client, the calls it has still to make             *)
(*   reply   : the last call, the resume as it was before the first call   *)
(*             (initial) and the updates completed so far (history)        *)
(***************************************************************************)
Clients == {1, 2}

\* The updates the two clients make together.
MaxUpdates == 3

\* The resume both clients work on.
SharedId == 1

ClientCalls ==
    {[op |-> "save"]}
    \cup {[op |-> "update", update |-> u] :
             u \in {x \in UpdateSamples : "experience" \notin DOMAIN x}}

\* One or two calls.
ClientPrograms ==
    {<<a>> : a \in ClientCalls} \cup {<<a, b>> : a, b \in ClientCalls}

ClientReply(op, client, ret, initial, history) ==
    [op |-> op, client |-> client, ret |-> ret, initial |-> initial,
     history |-> history]

\* The resume is in the cache, on disk or both when the clients start.
InitClients ==
    /\ \E in_cache, on_disk \in BOOLEAN :
          /\ in_cache \/ on_disk
          /\ cache = IF in_cache
                     THEN Put(EmptyMap, SharedId, NewResumeBuilder(SharedId, "My Resume", 0))
                     ELSE EmptyMap
          /\ disk = IF on_disk
                    THEN save_resume(EmptyMap, NewResumeBuilder(SharedId, "My Resume", 0))
                    ELSE EmptyMap
    /\ issued = {SharedId}
    /\ now = 0
    /\ request \in [Clients -> ClientPrograms]
    /\ reply = ClientReply("init", 0, None,
                           NewResumeBuilder(SharedId, "My Resume", 0), <<>>)
    /\ scored = Nothing

\* PATCH /builder/{resume_id} by one client: update_resume as a whole.
ClientUpdate ==
    \E client \in Clients :
        /\ request[client] # <<>>
        /\ Head(request[client]).op = "update"
        /\ now < MaxUpdates
        /\ LET update_data == Head(request[client]).update
               got == get_resume(cache, disk, SharedId)
           IN  /\ request' = [request EXCEPT ![client] = Tail(@)]
               /\ IF got.ret # "resume"
                  THEN /\ cache' = got.cache
                       /\ now' = now
                       /\ reply' = ClientReply("update", client, got.ret,
                                               reply.initial, reply.history)
                  ELSE /\ now' = now + 1
                       /\ cache' = Put(got.cache, SharedId,
                                       ApplyUpdate(got.resume[1], update_data, now + 1))
                       /\ reply' = ClientReply("update", client, "resume",
                                               reply.initial,
                                               Append(reply.history, update_data))
        /\ UNCHANGED <<disk, issued, scored>>

\* POST /builder/{resume_id}/save by one client: get_resume, then
\* save_resume.
ClientSave ==
    \E client \in Clients :
        /\ request[client] # <<>>
        /\ Head(request[client]).op = "save"
        /\ LET got == get_resume(cache, disk, SharedId)
           IN  /\ request' = [request EXCEPT ![client] = Tail(@)]
               /\ cache' = got.cache
               /\ IF got.ret = "resume"
                  THEN /\ disk' = save_resume(disk, got.resume[1])
                       /\ reply' = ClientReply("save", client, "True",
                                               reply.initial, reply.history)
                  ELSE /\ disk' = disk
                       /\ reply' = ClientReply("save", client, got.ret,
                                               reply.initial, reply.history)
        /\ UNCHANGED <<issued, now, scored>>

NextClients ==
    \/ ClientUpdate
    \/ ClientSave

SpecClients == InitClients /\ [][NextClients]_vars

(***************************************************************************)
(* Properties of score_resume, checked under SpecScore.  Scores of the     *)
(* result are in tenths of a point: 100.0 is 1000.                         *)
(***************************************************************************)
InRange(x) == x \in 0..1000

OptInRange(x) == x = Nothing \/ x[1] \in 0..1000

\* C1: whatever the resume, the mode, the industry and the job description,
\* overall, ats_compliance, readability, layout and, when present,
\* experience, skills and job_match of the result lie within [0, 100].
C1_ScoresWithinRange ==
    scored # Nothing =>
        /\ InRange(scored[1].overall)
        /\ InRange(scored[1].ats_compliance)
        /\ InRange(scored[1].readability)
        /\ InRange(scored[1].layout)
        /\ OptInRange(scored[1].experience)
        /\ OptInRange(scored[1].skills)
        /\ OptInRange(scored[1].job_match)

\* A degenerate resume (no experience, no skills, no email, under 20 words)
\* scored in EXPERT mode with an industry and a job description all of whose
\* words the resume holds: the boosted overlap of 150 is returned as 100.
C1_Witness ==
    /\ scored # Nothing
    /\ request.mode = "expert"
    /\ request.industry # None
    /\ Len(request.resume.experience) = 0
    /\ Len(request.resume.skills) = 0
    /\ ~Truthy(request.resume.contact.email)
    /\ request.resume.raw_text.split < 20
    /\ request.job_description.kind = "text"
    /\ request.job_description.words > 0
    /\ request.job_description.common = request.job_description.words
    /\ scored[1].job_match = Some(1000)

\* C2: a text with zero sentences or zero words yields a readability score
\* of 0 and Flesch reading ease, grade and average words per sentence of 0.
C2_DegenerateReadabilityZero ==
    (/\ scored # Nothing
     /\ \/ request.resume.raw_text.sentences = 0
        \/ request.resume.raw_text.alpha = 0)
    => /\ scored[1].readability = 0
       /\ scored[1].detailed_metrics.readability.flesch_reading_ease = 0
       /\ scored[1].detailed_metrics.readability.flesch_kincaid_grade = 0
       /\ scored[1].detailed_metrics.readability.avg_words_per_sentence = 0

\* The empty text scored: the metrics are zero and the readability is 57.0.
C2_Witness ==
    /\ scored # Nothing
    /\ request.resume.raw_text = EmptyText
    /\ scored[1].detailed_metrics.readability.flesch_reading_ease = 0
    /\ scored[1].detailed_metrics.readability.flesch_kincaid_grade = 0
    /\ scored[1].readability = 570

\* C3: in BASIC mode experience and skills of the result are None; in ATS
\* and EXPERT mode both are numbers, 0 when the resume has no experience
\* entries (experience) or no skills (skills).
C3_ModeDependentScores ==
    scored # Nothing =>
        /\ request.mode = "basic" =>
              /\ scored[1].experience = Nothing
              /\ scored[1].skills = Nothing
        /\ request.mode \in {"ats", "expert"} =>
              /\ scored[1].experience # Nothing
              /\ scored[1].skills # Nothing
              /\ Len(request.resume.experience) = 0 =>
                    scored[1].experience = Some(0)
              /\ Len(request.resume.skills) = 0 =>
                    scored[1].skills = Some(0)

\* ATS mode on a resume without experience entries and without skills: both
\* scores are the number 0.
C3_Witness ==
    /\ scored # Nothing
    /\ request.mode = "ats"
    /\ Len(request.resume.experience) = 0
    /\ Len(request.resume.skills) = 0
    /\ scored[1].experience = Some(0)
    /\ scored[1].skills = Some(0)

\* The weighted sum with the weights written out, in 1/100000 of a point.
LiteralWeightedSum(mode, p) ==
    IF mode = "basic"
    THEN 50 * p.ats_score + 30 * p.layout_score + 20 * p.readability_score
    ELSE 25 * p.ats_score + 25 * OrZero(p.experience_score)
         + 20 * OrZero(p.skills_score) + 15 * p.readability_score
         + 15 * p.layout_score

AtsPenalties(resume) ==
    (IF ~Truthy(resume.contact.email) THEN 15 ELSE 0)
    + (IF ~Truthy(resume.contact.phone) THEN 10 ELSE 0)
    + (IF resume.raw_text.tables THEN 15 ELSE 0)
    + (IF resume.raw_text.images THEN 10 ELSE 0)
    + (IF resume.raw_text.columns THEN 8 ELSE 0)
    + (IF ~Truthy(resume.summary) THEN 5 ELSE 0)
    + (IF Len(resume.experience) = 0 THEN 20 ELSE 0)
    + (IF Len(resume.education) = 0 THEN 10 ELSE 0)
    + (IF Len(resume.skills) = 0 THEN 10 ELSE 0)
    + (IF RoundHalfEven(resume.raw_text.split, 450) > 3 THEN 10 ELSE 0)

\* C5: the ATS compliance score is 10 when the text has fewer than 20
\* words, whatever the other fields; otherwise it is max(0, 100 - the sum
\* of the penalties that apply).
C5_AtsCompliance ==
    scored # Nothing =>
        IF request.resume.raw_text.split < 20
        THEN scored[1].ats_compliance = 100
        ELSE scored[1].ats_compliance
                = 10 * Max(0, 100 - AtsPenalties(request.resume))

\* A text of at least 20 words on more than 3 pages whose penalties exceed
\* 100: the score is 0.
C5_Witness ==
    /\ scored # Nothing
    /\ request.resume.raw_text.split >= 20
    /\ RoundHalfEven(request.resume.raw_text.split, 450) > 3
    /\ AtsPenalties(request.resume) > 100
    /\ scored[1].ats_compliance = 0

\* C6: in EXPERT mode a resume with at least one certification scores an
\* overall at least that of the same resume with certifications = [], for
\* every industry.
C6_CertificationsMonotone ==
    (/\ scored # Nothing
     /\ request.mode = "expert"
     /\ Len(request.resume.certifications) > 0)
    => scored[1].overall >=
          score_resume([request.resume EXCEPT !.certifications = <<>>],
                       "expert", request.job_description, request.industry).overall

\* EXPERT mode, a certification of the requested industry, and an overall
\* strictly above that of the resume without certifications.
C6_Witness ==
    /\ scored # Nothing
    /\ request.mode = "expert"
    /\ IndustryKnown(request.industry)
    /\ \E i \in 1..Len(request.resume.certifications) :
          request.industry \in request.resume.certifications[i].industries
    /\ scored[1].overall >
          score_resume([request.resume EXCEPT !.certifications = <<>>],
                       "expert", request.job_description, request.industry).overall

\* C7: in every mode, a recognised industry yields an overall at least that
\* obtained with industry = None (the industry only adds points).
C7_IndustryMonotone ==
    (scored # Nothing /\ IndustryKnown(request.industry))
    => scored[1].overall >=
          score_resume(request.resume, request.mode,
                       request.job_description, None).overall

\* A recognised industry whose keywords the resume's skills hold, and an
\* overall strictly above that without industry.
C7_Witness ==
    /\ scored # Nothing
    /\ IndustryKnown(request.industry)
    /\ request.resume.skill_kw[request.industry] > 0
    /\ scored[1].overall >
          score_resume(request.resume, request.mode,
                       request.job_description, None).overall

\* The comments of the rule passes in the order: ATS compliance,
\* readability, layout, industry, experience, skills, general best
\* practices, bullet consistency.
CommentsInPassOrder ==
    LET p == ScoreParts(request.resume, request.mode,
                        request.job_description, request.industry)
    IN  AtsComments(request.resume, p.ats_score)
        \o ReadabilityComments(p.readability_score)
        \o LayoutComments(request.resume, p.layout_score)
        \o IndustryComments(request.resume, request.industry)
        \o ExperienceComments(request.resume, request.mode, p.experience_score)
        \o SkillsComments(request.resume, request.mode, p.skills_score)
        \o GeneralComments(request.resume, request.mode)
        \o BulletComments(request.resume)

\* C8: the comments of the result are at most 6, and they are the first six
\* (or fewer) of the comments the passes produce in their order.
C8_CommentsFirstSix ==
    scored # Nothing =>
        /\ Len(scored[1].comments) <= 6
        /\ Len(scored[1].comments) = Min(6, Len(CommentsInPassOrder))
        /\ \A i \in 1..Len(scored[1].comments) :
              scored[1].comments[i] = CommentsInPassOrder[i]

\* More than six comments are produced, a general best-practice comment
\* among them, and six are returned.
C8_Witness ==
    /\ scored # Nothing
    /\ Len(CommentsInPassOrder) > 6
    /\ Len(GeneralComments(request.resume, request.mode)) > 0
    /\ Len(scored[1].comments) = 6

(***************************************************************************)
(* Properties of ResumeBuilderService, checked under Spec.                 *)
(***************************************************************************)
\* C9: delete_resume returns True whenever the resume was in the cache or
\* on disk before the call, and False only when it was in neither.
C9_DeleteReturnsTrueWhenExisted ==
    reply.op = "delete" =>
        (reply.ret = "True" <=> (reply.was_cached \/ reply.was_on_disk))

\* delete_resume of a resume held in the cache only returns False.
C9_Witness ==
    /\ reply.op = "delete"
    /\ reply.was_cached
    /\ ~reply.was_on_disk
    /\ reply.ret = "False"

\* C10: get_resume of a saved resume that is not cached returns a resume
\* equal to the document save_resume wrote.
C10_SaveLoadRoundTrip ==
    (reply.op = "get" /\ ~reply.was_cached /\ reply.was_on_disk)
    => /\ reply.ret = "resume"
       /\ reply.resume = Some(disk[reply.id])

\* get_resume of a saved, uncached resume whose title is null on disk ends
\* in the validation error of the ResumeBuilder constructor.
C10_Witness ==
    /\ reply.op = "get"
    /\ ~reply.was_cached
    /\ reply.was_on_disk
    /\ reply.id \in DOMAIN disk
    /\ disk[reply.id].title = None
    /\ reply.ret = "ValidationError"

(***************************************************************************)
(* The expert adjustment, checked under SpecScore.                         *)
(***************************************************************************)
\* The net expert adjustment in points, read off the request.
ExpertAdjustmentPoints(resume, industry) ==
    (IF \E i \in 1..Len(resume.experience) :
           \E j \in 1..Len(resume.experience[i]) : resume.experience[i][j].impact
     THEN 5 ELSE 0)
    + (IF Len(resume.certifications) > 0 THEN 3 ELSE 0)
    + (IF /\ Len(resume.certifications) > 0
          /\ industry \in RecognisedIndustries
          /\ \E i \in 1..Len(resume.certifications) :
                 industry \in resume.certifications[i].industries
       THEN 4 ELSE 0)
    + (IF Truthy(resume.summary) THEN 2 ELSE 0)
    - (IF resume.raw_text.bias # {} THEN 5 ELSE 0)
    - (IF /\ Len(resume.experience) > 0
          /\ \A i \in 1..Len(resume.experience) :
                 \A j \in 1..Len(resume.experience[i]) :
                    ~resume.experience[i][j].quant
       THEN 5 ELSE 0)

\* C19: in EXPERT mode overall is the weighted sum ATS mode computes for
\* the same resume and industry plus the net expert adjustment (impact +5,
\* certifications +3 and +4 if industry-matched, summary +2, bias -5, no
\* quantified achievement despite experience -5), clamped to [0, 100]; the
\* adjustment lies within -20..+20 and EXPERT and ATS overall differ by at
\* most 20.
C19_ExpertAdjustmentBounded ==
    (scored # Nothing /\ request.mode = "expert") =>
        LET adj == ExpertAdjustmentPoints(request.resume, request.industry)
            ats == ScoreParts(request.resume, "ats", request.job_description,
                              request.industry).weighted
            ats_overall == RoundHalfEven(ats, 10000)
        IN  /\ adj \in -20..20
            /\ scored[1].overall =
                  RoundHalfEven(Min(10000000, Max(0, ats + 100000 * adj)), 10000)
            /\ scored[1].overall - ats_overall \in -200..200

\* EXPERT mode on a resume with experience but no quantified bullet and a
\* text with a bias indicator: both penalties apply and overall is below
\* the ATS overall.
C19_Witness ==
    /\ scored # Nothing
    /\ request.mode = "expert"
    /\ request.resume.raw_text.bias # {}
    /\ Len(request.resume.experience) > 0
    /\ ExpertAdjustmentPoints(request.resume, request.industry) < 0
    /\ scored[1].overall <
          score_resume(request.resume, "ats", request.job_description,
                       request.industry).overall

(***************************************************************************)
(* Properties of apply_fix and of the auto-fix routes, checked under       *)
(* SpecFix.                                                                *)
(***************************************************************************)
\* apply_fix has been called by the last request.
FixApplied == reply.op = "apply-fix" /\ reply.applied # Nothing

\* C11: applying an auto-applicable SUMMARY/ADD fix to a builder without
\* summary returns (True, message, builder) and the builder's summary is
\* the suggested value, whatever the suggested value.
C11_SummaryFixSucceeds ==
    (/\ FixApplied
     /\ reply.fix.fix_type = "summary"
     /\ reply.fix.action = "add"
     /\ reply.fix.auto_applicable
     /\ reply.builder[1].summary = None)
    => /\ reply.applied[1].success
       /\ reply.applied[1].updated # Nothing
       /\ reply.applied[1].updated[1].summary = PyStr(reply.fix.suggested_value)

\* The fix of test_apply_summary_fix (a suggested value of 45 characters)
\* on a builder without summary: apply_fix returns (False, error, None).
C11_Witness ==
    /\ FixApplied
    /\ reply.fix = AutoFix("summary", "add", TestSummary, TRUE)
    /\ reply.builder[1].summary = None
    /\ ~reply.applied[1].success
    /\ reply.applied[1].updated = Nothing
    /\ reply.applied[1].message = "Error applying fix: ValidationError"

\* C12: apply_fix on a fix that is not auto-applicable returns (False, the
\* manual-intervention message, None) and leaves the builder unchanged; a
\* fix is applied (success, or any change of the builder) only if it is
\* SUMMARY with action ADD.
C12_OnlySummaryAddApplied ==
    FixApplied =>
        /\ ~reply.fix.auto_applicable =>
              /\ ~reply.applied[1].success
              /\ reply.applied[1].message = "This fix requires manual intervention"
              /\ reply.applied[1].updated = Nothing
              /\ cache[reply.id] = reply.builder[1]
        /\ (reply.applied[1].success \/ cache[reply.id] # reply.builder[1]) =>
              /\ reply.fix.fix_type = "summary"
              /\ reply.fix.action = "add"
              /\ reply.fix.auto_applicable

\* A SUMMARY/ADD fix with a valid suggested value that is not
\* auto-applicable, on a builder without summary: refused, builder as it
\* was.
C12_Witness ==
    /\ FixApplied
    /\ reply.fix = AutoFix("summary", "add", TemplateSummary, FALSE)
    /\ reply.builder[1].summary = None
    /\ ~reply.applied[1].success
    /\ cache[reply.id].summary = None

\* C18: analyze and apply-fix answer 404 with detail "Resume not found"
\* when the resume id is neither in the cache nor on disk.
C18_UnknownResume404 ==
    (/\ reply.op \in {"analyze", "apply-fix"}
     /\ ~reply.was_cached
     /\ ~reply.was_on_disk)
    => /\ reply.ret = "404"
       /\ reply.detail = "Resume not found"

\* analyze of an id that is nowhere answers 500 with the 404 as its detail.
C18_Witness ==
    /\ reply.op = "analyze"
    /\ ~reply.was_cached
    /\ ~reply.was_on_disk
    /\ reply.ret = "500"
    /\ reply.detail = NotFoundAs500

(***************************************************************************)
(* Properties of load_document and of the readers, checked under SpecLoad. *)
(***************************************************************************)
\* The extension of a file name: from its last dot on, lowered; empty
\* when the name has no dot.
FileExtension(filename) ==
    LET dots == {i \in 1..Len(filename) : filename[i] = "."}
    IN  IF dots = {} THEN <<>>
        ELSE ToLower(SubSeq(filename, CHOOSE i \in dots : \A j \in dots : i >= j,
                            Len(filename)))

\* C13: load_document rejects with status 400 and its own reason a missing
\* filename, then an extension other than .pdf, .docx, .doc, then content
\* of more than 10 MB, then empty content, in this order, and calls no
\* reader when one of the checks fails.
C13_UploadChecksInOrder ==
    reply.op = "load_document" =>
        LET missing == request.filename = Nothing \/ request.filename[1] = <<>>
            unsupported ==
                /\ ~missing
                /\ FileExtension(request.filename[1])
                      \notin {<<".", "p", "d", "f">>, <<".", "d", "o", "c", "x">>,
                              <<".", "d", "o", "c">>}
            named == ~missing /\ ~unsupported
            too_large == named /\ request.readable /\ request.data.size > 10485760
            empty == named /\ request.readable /\ request.data.size = 0
            Rejected(reasons) ==
                /\ reply.status = 400
                /\ reply.detail \in reasons
                /\ reply.document = Nothing
                /\ reply.readers = <<>>
        IN  /\ missing => Rejected({"No filename provided"})
            /\ unsupported =>
                  Rejected({"Unsupported file type. Allowed: " \o joined :
                              joined \in AllowedJoined})
            /\ too_large => Rejected({"File too large. Maximum size: 10.0MB"})
            /\ empty => Rejected({"File is empty"})

\* A PDF of more than 10 MB that fitz could open, uploaded under a .PDF
\* name: rejected as too large, no reader called.
C13_Witness ==
    /\ reply.op = "load_document"
    /\ request.filename = Some(<<"C", "V", ".", "P", "D", "F">>)
    /\ request.readable
    /\ request.data.size = MAX_FILE_SIZE + 1
    /\ request.data.fitz.opens
    /\ reply.status = 400
    /\ reply.detail = "File too large. Maximum size: 10.0MB"
    /\ reply.readers = <<>>

\* The reader that load_document called could not open the document.
Unreadable ==
    /\ reply.op = "load_document"
    /\ \/ reply.readers = <<"read_pdf">> /\ ~request.data.fitz.opens
       \/ reply.readers = <<"DOCXReader.read">> /\ ~request.data.docx.opens

\* C14: a document that its reader cannot open, PDF or DOCX/DOC, is
\* answered by load_document with a 4xx status and a reason, never 5xx.
C14_UnreadableIsClientError ==
    Unreadable =>
        /\ reply.status \in 400..499
        /\ reply.detail # ""

\* Bytes that are no zip archive uploaded as .docx: status 500.
C14_Witness ==
    /\ Unreadable
    /\ request.filename = Some(<<"c", "v", ".", "d", "o", "c", "x">>)
    /\ request.data.docx = NotAZip
    /\ reply.status = 500
    /\ reply.detail = "Internal error parsing document: File is not a zip file"

\* C15: a document that was read has text: neither its full_text nor its
\* list of blocks is empty, for PDF and DOCX alike.
C15_DocumentHasText ==
    (reply.op = "load_document" /\ reply.document # Nothing) =>
        /\ reply.document[1].full_text # <<>>
        /\ reply.document[1].blocks # <<>>

\* A DOCX file without paragraphs and tables: read, and returned with an
\* empty full_text and no blocks.
C15_Witness ==
    /\ reply.op = "load_document"
    /\ request.data.docx = DocxOpens(<<>>, <<>>)
    /\ reply.readers = <<"DOCXReader.read">>
    /\ reply.status = 200
    /\ reply.document[1].full_text = <<>>
    /\ reply.document[1].blocks = <<>>

(***************************************************************************)
(* Properties of the parsers, checked under SpecParse.                     *)
(***************************************************************************)
\* The k-th smallest element of the set S of numbers.
Nth(S, k) == CHOOSE n \in S : Cardinality({m \in S : m < n}) = k - 1

\* The heading each block of the documents is detected as.
HeadingOf ==
    [block \in DocumentBlocks |-> _detect_section_heading(block, section_headings)]

\* C16: in detect_sections a block that matches a heading synonym
\* switches the current section and is not stored; every other block is
\* appended, in order, to the section of the most recent heading; a block
\* before the first heading is in no section.
C16_BlocksFollowHeadings ==
    reply.op = "detect_sections" =>
        LET blocks == request.document.blocks
            heading(i) == HeadingOf[blocks[i]]
            headings == {i \in 1..Len(blocks) : heading(i) # Nothing}
            \* the section of the most recent heading before block i
            section(i) ==
                heading(CHOOSE h \in headings : h < i /\ \A o \in headings : o < i => o <= h)[1]
            under(sec) == {i \in 1..Len(blocks) :
                              /\ i \notin headings
                              /\ \E h \in headings : h < i
                              /\ section(i) = sec}
        IN  /\ DOMAIN reply.result = {heading(h)[1] : h \in headings}
            /\ \A sec \in DOMAIN reply.result : reply.result[sec] = Keep(blocks, under(sec))

\* A name, a heading, a line, another heading, a line: the name is in no
\* section and each line is in the section of the heading before it.
C16_Witness ==
    /\ reply.op = "detect_sections"
    /\ request.document.blocks =
          <<<<"J", "o", " ", "D", "o", "e">>,
            <<" ", "W", "o", "r", "k", "-", "E", "x", "p", "e", "r", "i", "e", "n", "c", "e", " ">>,
            <<"D", "e", "v", " ", "a", "t", " ", "A", "c", "m", "e">>,
            <<"H", "o", "b", "b", "i", "e", "s">>>>
    /\ DOMAIN reply.result = {"experience", "other"}
    /\ reply.result["experience"] = <<<<"D", "e", "v", " ", "a", "t", " ", "A", "c", "m", "e">>>>
    /\ reply.result["other"] = <<>>

\* C17: DateRangeMatcher.extract gives ("2020-01", "Present") for
\* "Jan 2020 - Present", ("2020-01", "2022-12") for "Jan 2020 - Dec 2022",
\* ("2020", "2022") for "2020 - 2022", ("2020", "Present") for
\* "2020 - Current" and ("2020-01", None) for the single date "Jan 2020".
C17_DateRanges ==
    reply.op = "extract" =>
        LET Present == <<"P", "r", "e", "s", "e", "n", "t">>
            Jan2020 == <<"2", "0", "2", "0", "-", "0", "1">>
            Dec2022 == <<"2", "0", "2", "2", "-", "1", "2">>
            Y2020 == <<"2", "0", "2", "0">>
            Y2022 == <<"2", "0", "2", "2">>
        IN  /\ request.text = <<"J", "a", "n", " ", "2", "0", "2", "0", " ", "-", " ", "P", "r", "e", "s", "e", "n", "t">>
                  => reply.result = Some(<<Some(Jan2020), Some(Present)>>)
            /\ request.text = <<"J", "a", "n", " ", "2", "0", "2", "0", " ", "-", " ", "D", "e", "c", " ", "2", "0", "2", "2">>
                  => reply.result = Some(<<Some(Jan2020), Some(Dec2022)>>)
            /\ request.text = <<"2", "0", "2", "0", " ", "-", " ", "2", "0", "2", "2">>
                  => reply.result = Some(<<Some(Y2020), Some(Y2022)>>)
            /\ request.text = <<"2", "0", "2", "0", " ", "-", " ", "C", "u", "r", "r", "e", "n", "t">>
                  => reply.result = Some(<<Some(Y2020), Some(Present)>>)
            /\ request.text = <<"J", "a", "n", " ", "2", "0", "2", "0">>
                  => reply.result = Some(<<Some(Jan2020), Nothing>>)

\* extract("Jan 2020") returns ("Jan", "2020").
C17_Witness ==
    /\ reply.op = "extract"
    /\ request.text = <<"J", "a", "n", " ", "2", "0", "2", "0">>
    /\ reply.result = Some(<<Some(<<"J", "a", "n">>), Some(<<"2", "0", "2", "0">>)>>)

\* A block starts with a date-like token: four digits, or the first three
\* letters of a month's name in any case.
DateLike(block) ==
    \/ Len(block) >= 4 /\ \A i \in 1..4 : block[i] \in Digits
    \/ /\ Len(block) >= 3
       /\ ToLower(SubSeq(block, 1, 3)) \in {MonthAbbreviations[m] : m \in 1..Len(MonthAbbreviations)}

\* C20: _split_experience_blocks opens a segment at each non-empty block
\* that starts with a date-like token and joins every other non-empty
\* block to the current segment: the segments are the non-empty blocks in
\* order, none lost or repeated, cut before each date-start block, and
\* their number is the number of date-start blocks, plus one when the
\* first non-empty block is no date-start.
C20_SegmentsCutAtDates ==
    reply.op = "_split_experience_blocks" =>
        LET split == ReSplit(BlankLine, request.text, 1)
            blocks == Keep([i \in 1..Len(split) |-> Strip(split[i])],
                           {i \in 1..Len(split) : Strip(split[i]) # <<>>})
            dated == {i \in 1..Len(blocks) : DateLike(blocks[i])}
            cuts == dated \cup (IF blocks # <<>> THEN {1} ELSE {})
            until(k) == IF k = Cardinality(cuts) THEN Len(blocks) ELSE Nth(cuts, k + 1) - 1
        IN  /\ Len(reply.result) =
                  Cardinality(dated) + (IF blocks # <<>> /\ 1 \notin dated THEN 1 ELSE 0)
            /\ Len(reply.result) = Cardinality(cuts)
            /\ \A k \in 1..Len(reply.result) :
                  reply.result[k] = Join(SubSeq(blocks, Nth(cuts, k), until(k)), <<"\n", "\n">>)

\* A line, a dated role, a line that starts with "Mar" and a second
\* dated role: four segments, the first of them without a date.
C20_Witness ==
    /\ reply.op = "_split_experience_blocks"
    /\ request.text = Join(<<<<"B", "u", "i", "l", "t", " ", "A", "P", "I", "s">>,
                             <<"2", "0", "2", "0", " ", "D", "e", "v", "\n", "A", "c", "m", "e">>,
                             <<"M", "a", "r", "k", "e", "t", "i", "n", "g", " ", "l", "e", "a", "d", " ">>,
                             <<"j", "a", "n", " ", "2", "0", "1", "9", " ", "Q", "A">>>>,
                           <<"\n", " ", "\n", "\n">>)
    /\ Len(reply.result) = 4
    /\ reply.result[1] = <<"B", "u", "i", "l", "t", " ", "A", "P", "I", "s">>

\* The number of blocks stored in the sections of keys.
RECURSIVE StoredIn(_, _)
StoredIn(sections, keys) ==
    IF keys = {} THEN 0
    ELSE LET key == CHOOSE k \in keys : TRUE
         IN  Len(sections[key]) + StoredIn(sections, keys \ {key})

\* C30: in detect_sections a heading that recurs keeps what its earlier
\* occurrences collected: a section's list is the concatenation, in
\* order, of the blocks that follow each occurrence of its heading, and
\* the sections together hold as many blocks as there are non-heading
\* blocks after the first heading.
C30_RecurringHeadingKeepsBlocks ==
    reply.op = "detect_sections" =>
        LET blocks == request.document.blocks
            heading(i) == HeadingOf[blocks[i]]
            headings == {i \in 1..Len(blocks) : heading(i) # Nothing}
            later(h) == {o \in headings : o > h}
            \* the blocks between the heading at h and the next heading
            following(h) ==
                SubSeq(blocks, h + 1, IF later(h) = {} THEN Len(blocks) ELSE Nth(later(h), 1) - 1)
            occurrences(sec) == {h \in headings : heading(h)[1] = sec}
        IN  /\ \A sec \in DOMAIN reply.result :
                  reply.result[sec] =
                      Flatten([k \in 1..Cardinality(occurrences(sec)) |->
                                  following(Nth(occurrences(sec), k))])
            /\ StoredIn(reply.result, DOMAIN reply.result) =
                  Cardinality({i \in 1..Len(blocks) :
                                  i \notin headings /\ \E h \in headings : h < i})

\* The experience heading, a line, the heading again in another spelling,
\* a line: both lines are in the experience section.
C30_Witness ==
    /\ reply.op = "detect_sections"
    /\ request.document.blocks =
          <<<<"E", "X", "P", "E", "R", "I", "E", "N", "C", "E">>,
            <<"J", "o", " ", "D", "o", "e">>,
            <<" ", "W", "o", "r", "k", "-", "E", "x", "p", "e", "r", "i", "e", "n", "c", "e", " ">>,
            <<"D", "e", "v", " ", "a", "t", " ", "A", "c", "m", "e">>>>
    /\ reply.result["experience"] =
          <<<<"J", "o", " ", "D", "o", "e">>, <<"D", "e", "v", " ", "a", "t", " ", "A", "c", "m", "e">>>>

(***************************************************************************)
(* Further properties of ResumeBuilderService, checked under Spec.         *)
(***************************************************************************)
\* The resume that get_resume finds for id before a step: the cached
\* one, else the stored one.
Held(id) == IF id \in DOMAIN cache THEN cache[id] ELSE disk[id]

\* C22: update_resume changes only the fields set in the ResumeUpdate,
\* and updated_at: id, created_at and every field the update does not set
\* keep their values; for an id that is neither cached nor stored it
\* returns None and changes neither the cache nor the files.
C22_UpdateTouchesOnlySetFields ==
    [][reply'.op = "update" =>
          /\ reply'.id \notin DOMAIN cache \cup DOMAIN disk =>
                /\ reply'.ret = None
                /\ reply'.resume = Nothing
                /\ cache' = cache
                /\ disk' = disk
          /\ reply'.ret = "resume" =>
                /\ cache'[reply'.id] = reply'.resume[1]
                /\ disk' = disk
                /\ \A f \in FieldNames :
                      IF f \in DOMAIN reply'.update
                      THEN cache'[reply'.id][f] = reply'.update[f]
                      ELSE f # "updated_at" => cache'[reply'.id][f] = Held(reply'.id)[f]
                /\ cache'[reply'.id].id = Held(reply'.id).id
                /\ cache'[reply'.id].created_at = Held(reply'.id).created_at]_vars

\* An update of the summary alone on a resume created with the title
\* "Updated Title": the summary is the new one, the title is kept.
C22_Witness ==
    /\ reply.op = "update"
    /\ reply.ret = "resume"
    /\ reply.update = [f \in {"summary"} |-> ValidSummary]
    /\ reply.resume[1].summary = ValidSummary
    /\ reply.resume[1].title = "Updated Title"
    /\ reply.resume[1].updated_at > reply.resume[1].created_at

\* C23: remove_section_entry with an entry_index outside 0..len-1 of the
\* section returns None and leaves the resume, updated_at included, as it
\* was; it returns a ResumeBuilder only when it removed an entry.
C23_RemoveOutOfRangeReturnsNone ==
    [][(/\ reply'.op = "remove"
        /\ reply'.section = "experience"
        /\ reply'.id \in DOMAIN cache \cup DOMAIN disk
        /\ Validates(Held(reply'.id))
        /\ reply'.entry_index \notin 0..(Len(Held(reply'.id).experience) - 1))
       => /\ reply'.ret = None
          /\ reply'.resume = Nothing
          /\ cache'[reply'.id] = Held(reply'.id)]_vars

\* Index 0 on a resume without experience entries: the resume comes back
\* with a new updated_at.
C23_Witness ==
    /\ reply.op = "remove"
    /\ reply.section = "experience"
    /\ reply.entry_index = 0
    /\ reply.ret = "resume"
    /\ reply.resume[1].experience = <<>>
    /\ reply.resume[1].created_at = 1
    /\ reply.resume[1].updated_at = 2

\* C29: list_resumes returns one entry for each resume id that is in the
\* cache, on disk or both, and no other entry: none for a deleted id.
C29_ListOnePerStoredId ==
    reply.op = "list" =>
        /\ \A id \in DOMAIN cache \cup DOMAIN disk :
              Cardinality({i \in 1..Len(reply.listing) : reply.listing[i].id = id}) = 1
        /\ \A i \in 1..Len(reply.listing) :
              reply.listing[i].id \in DOMAIN cache \cup DOMAIN disk

\* A listing of one resume that is both cached and stored, after the other
\* issued id was deleted.
C29_Witness ==
    /\ reply.op = "list"
    /\ Len(reply.listing) = 1
    /\ reply.listing[1].id \in DOMAIN cache \cap DOMAIN disk
    /\ issued \ (DOMAIN cache \cup DOMAIN disk) # {}

(***************************************************************************)
(* Further properties of score_resume, checked under SpecScore.            *)
(***************************************************************************)
\* The layout score (thousandths) of the resume with its text at another
\* word count, under the structure flags of the resume as it is.
LayoutAt(resume, word_count) ==
    _layout_score([resume EXCEPT !.raw_text.tokens = word_count],
                  _detect_structure_flags(resume.raw_text)).score

\* The word counts on both sides of each edge of a band of _layout_score.
LayoutBandEdges == {0, 149, 150, 199, 200, 399, 400, 1500, 1501, 2000, 2001, 2500}

\* C28: with the column and header/footer flags fixed the layout score is
\* unimodal in the word count: no lower at a larger count up to 400, 100
\* less the flag penalties throughout 400..1500, and no higher at a larger
\* count from 1500 on.
C28_LayoutUnimodal ==
    scored # Nothing =>
        LET resume == request.resume
            words == resume.raw_text.tokens
            flags == _detect_structure_flags(resume.raw_text)
        IN  /\ scored[1].layout = Round1(LayoutAt(resume, words))
            /\ \A more \in LayoutBandEdges :
                  /\ (words <= more /\ more <= 400)
                        => LayoutAt(resume, words) <= LayoutAt(resume, more)
                  /\ (1500 <= words /\ words <= more)
                        => LayoutAt(resume, more) <= LayoutAt(resume, words)
            /\ (400 <= words /\ words <= 1500)
                  => LayoutAt(resume, words) =
                        100000 - (IF flags.has_columns THEN 5000 ELSE 0)
                               - (IF flags.has_headers_footers THEN 3000 ELSE 0)

\* A text of 160 words scores above the same resume at 200 words, and a
\* text of 1700 words below the same resume at 2001 words.
C28_Witness ==
    /\ scored # Nothing
    /\ request.resume.raw_text.tokens \in {160, 1700}
    /\ scored[1].layout = Round1(LayoutAt(request.resume, request.resume.raw_text.tokens))
    /\ \/ /\ request.resume.raw_text.tokens = 160
          /\ LayoutAt(request.resume, 160) > LayoutAt(request.resume, 200)
       \/ /\ request.resume.raw_text.tokens = 1700
          /\ LayoutAt(request.resume, 1700) < LayoutAt(request.resume, 2001)

\* The roles of the resume hold no quantified bullet although the resume
\* has experience: the condition under which _apply_expert_rules subtracts
\* its last 5 points.
NoAchievementPenalty(resume) ==
    /\ Len(resume.experience) > 0
    /\ _apply_expert_rules(resume, None)
         = _apply_expert_rules([resume EXCEPT !.experience = <<>>], None) - 5000

NoAchievementsFlag == "No achievements quantified - add metrics and numbers"

\* C25: in EXPERT mode, whenever the expert rules subtract the 5 points for
\* experience without a single quantified achievement, the flags of the
\* result contain the 'No achievements quantified' warning, roles without
\* any bullet included.
C25_PenaltyImpliesFlag ==
    (/\ scored # Nothing
     /\ request.mode = "expert"
     /\ NoAchievementPenalty(request.resume))
    => \E i \in 1..Len(scored[1].flags) : scored[1].flags[i] = NoAchievementsFlag

\* EXPERT mode on a resume whose only role has no bullet: the penalty is
\* taken and the warning is absent.
C25_Witness ==
    /\ scored # Nothing
    /\ request.mode = "expert"
    /\ request.resume.experience = << <<>> >>
    /\ NoAchievementPenalty(request.resume)
    /\ \A i \in 1..Len(scored[1].flags) : scored[1].flags[i] # NoAchievementsFlag

(***************************************************************************)
(* Further properties of apply_fix, checked under SpecFix.                 *)
(***************************************************************************)
\* C27: apply_fix never replaces a summary.  A SUMMARY/ADD fix on a builder
\* that has a summary returns success False and no updated builder, and the
\* stored builder is the one the call was given; so the same fix applied
\* twice in a row changes the builder the first time only.
C27_SummaryNeverReplaced ==
    [][(/\ reply'.op = "apply-fix"
        /\ reply'.applied # Nothing
        /\ reply'.fix.fix_type = "summary"
        /\ reply'.fix.action = "add"
        /\ reply'.builder[1].summary # None)
       => /\ ~reply'.applied[1].success
          /\ reply'.applied[1].updated = Nothing
          /\ reply'.resume = reply'.builder
          /\ cache'[reply'.id] = reply'.builder[1]
          /\ (FixApplied /\ reply.id = reply'.id /\ reply.fix = reply'.fix
              /\ reply.applied[1].success)
             => cache'[reply'.id] = cache[reply'.id]]_vars

\* The template summary fix applied a second time: the builder holds the
\* summary the first application set, the call is refused and the builder
\* keeps that summary.
C27_Witness ==
    /\ FixApplied
    /\ reply.fix = AutoFix("summary", "add", TemplateSummary, TRUE)
    /\ reply.builder[1].summary = PyStr(TemplateSummary)
    /\ ~reply.applied[1].success
    /\ cache[reply.id].summary = PyStr(TemplateSummary)

(***************************************************************************)
(* Properties of generate_fixes, checked under SpecGenerate.               *)
(***************************************************************************)
\* The generators in the order generate_fixes tries their cues.
GeneratorOrder ==
    <<"length", "summary", "readability", "contact", "quantification", "bullets">>

\* The cue of one generator is found in the lowered feedback.
CueMatches(handler, feedback_lower) ==
    CASE handler = "length" ->
           In(TooLong, feedback_lower) \/ In(TwoPages, feedback_lower)
      [] handler = "summary" ->
           In(SummaryCue, feedback_lower) /\ In(MissingCue, feedback_lower)
      [] handler = "readability" ->
           In(ReadabilityCue, feedback_lower) \/ In(LongSentences, feedback_lower)
      [] handler = "contact" ->
           \/ In(ContactCue, feedback_lower)
           \/ In(EmailCue, feedback_lower)
           \/ In(PhoneCue, feedback_lower)
      [] handler = "quantification" ->
           \/ In(QuantifCue, feedback_lower)
           \/ In(MetricCue, feedback_lower)
           \/ In(NumberCue, feedback_lower)
      [] handler = "bullets" ->
           In(BulletCue, feedback_lower) \/ In(ActionVerb, feedback_lower)

\* The positions in GeneratorOrder of the generators whose cue the feedback
\* holds.
Matching ==
    [feedback \in FeedbackTexts |->
        {k \in 1..Len(GeneratorOrder) :
            CueMatches(GeneratorOrder[k], ToLower(Characters(feedback)))}]

\* C21: generate_fixes goes through flags, then comments, in order, and
\* calls for each feedback at most one generator, the first in the order
\* length, summary, readability, contact, quantification, bullets whose cue
\* the feedback holds; a feedback without cue has no generator called;
\* when every generator returns, the returned fixes are what the called
\* generators produced, in feedback order.
C21_DispatchFirstCueInOrder ==
    reply.op = "generate_fixes" =>
        LET all_feedback == reply.flags \o reply.comments
            calls == reply.generated.calls
        IN  /\ \A k \in 1..Len(calls) :
                  /\ calls[k].feedback \in 1..Len(all_feedback)
                  /\ Matching[all_feedback[calls[k].feedback]] # {}
                  /\ \E m \in Matching[all_feedback[calls[k].feedback]] :
                        /\ GeneratorOrder[m] = calls[k].handler
                        /\ \A n \in Matching[all_feedback[calls[k].feedback]] : m <= n
            /\ \A k, l \in 1..Len(calls) :
                  k < l => calls[k].feedback < calls[l].feedback
            /\ ~reply.generated.raised =>
                  /\ {calls[k].feedback : k \in 1..Len(calls)}
                       = {i \in 1..Len(all_feedback) : Matching[all_feedback[i]] # {}}
                  /\ reply.generated.value =
                        Flatten([k \in 1..Len(calls) |->
                                   Generated(calls[k].handler, reply.resume).value])

\* A resume without experience, of more than 1000 words, one of its
\* sentences long, with the feedback "longer than recommended (2 pages
\* max)", a readability comment, a comment without cue and two comments
\* whose generators return nothing: a LENGTH fix, then a READABILITY fix.
C21_Witness ==
    /\ reply.op = "generate_fixes"
    /\ ~reply.generated.raised
    /\ Len(reply.flags \o reply.comments) = 5
    /\ Len(reply.generated.calls) = 4
    /\ Len(reply.generated.value) = 2
    /\ reply.generated.value[1].fix_type = "length"
    /\ reply.generated.value[2].fix_type = "readability"

\* The call of generate_fixes was given the resume, the flags and the
\* comments of the score_resume result.
FedFromScore ==
    /\ reply.op = "generate_fixes"
    /\ scored # Nothing
    /\ reply.flags = scored[1].flags
    /\ reply.comments = scored[1].comments
    /\ reply.resume.contact = request.resume.contact

\* C26: generate_fixes fed the flags and comments of one score_resume
\* result returns no two fixes with the same fix_type and section; a
\* resume without email and without phone gets a single CONTACT fix.
C26_NoDuplicateFixes ==
    FedFromScore =>
        /\ ~reply.generated.raised =>
              \A k, l \in 1..Len(reply.generated.value) :
                  (/\ reply.generated.value[k].fix_type = reply.generated.value[l].fix_type
                   /\ reply.generated.value[k].section = reply.generated.value[l].section)
                  => k = l
        /\ (~Truthy(reply.resume.contact.email) /\ ~Truthy(reply.resume.contact.phone))
           => /\ ~reply.generated.raised
              /\ Cardinality({k \in 1..Len(reply.generated.value) :
                                reply.generated.value[k].fix_type = "contact"}) = 1

\* The score of a resume of more than two pages and more than 1500 words
\* has the flag "longer than recommended (2 pages max)" and the comment
\* "Consider condensing resume to 1-2 pages": two LENGTH fixes for the
\* section "overall".
C26_Witness ==
    /\ FedFromScore
    /\ ~reply.generated.raised
    /\ \E k, l \in 1..Len(reply.generated.value) :
          /\ k < l
          /\ reply.generated.value[k].fix_type = "length"
          /\ reply.generated.value[l].fix_type = "length"
          /\ reply.generated.value[k].section = reply.generated.value[l].section

(***************************************************************************)
(* Two clients on one resume, checked under SpecClients.                   *)
(***************************************************************************)
\* The value the completed updates leave in a field: that of the last
\* update that set the field, the initial value when none did.
LastWritten(field) ==
    LET setters == {k \in 1..Len(reply.history) : field \in DOMAIN reply.history[k]}
    IN  IF setters = {} THEN reply.initial[field]
        ELSE reply.history[CHOOSE k \in setters : \A l \in setters : l <= k][field]

AllCallsCompleted == \A client \in Clients : request[client] = <<>>

\* C24: two clients interleave update_resume and save_resume on one resume
\* id.  Once all calls have completed, every field of the resume holds the
\* value of the most recent update that set it (its initial value when no
\* update set it), get_resume returns that resume, and save_resume then
\* writes exactly that resume.
C24_LastWriteWins ==
    (reply.op # "init" /\ AllCallsCompleted) =>
        /\ SharedId \in DOMAIN cache
        /\ \A field \in FieldNames \ {"updated_at"} :
              cache[SharedId][field] = LastWritten(field)
        /\ cache[SharedId].updated_at = Len(reply.history)
        /\ get_resume(cache, disk, SharedId).ret = "resume"
        /\ get_resume(cache, disk, SharedId).resume = Some(cache[SharedId])
        /\ \A field \in FieldNames \ {"updated_at"} :
              save_resume(disk, get_resume(cache, disk, SharedId).resume[1])[SharedId][field]
                 = LastWritten(field)

\* Both clients have updated the title and one of them has saved in
\* between: the title is that of the second update, the summary that of
\* the only update that set it, and the file still holds the first title.
C24_Witness ==
    /\ AllCallsCompleted
    /\ Len(reply.history) = 3
    /\ DOMAIN reply.history[1] = {"title"}
    /\ DOMAIN reply.history[2] = {"summary"}
    /\ DOMAIN reply.history[3] = {"title"}
    /\ reply.history[1].title # reply.history[3].title
    /\ cache[SharedId].title = reply.history[3].title
    /\ cache[SharedId].summary = reply.history[2].summary
    /\ SharedId \in DOMAIN disk
    /\ disk[SharedId].title = reply.history[1].title
====
